---- MODULE Spec2Model ----
(***************************************************************************)
(* Model of the CDP helper layer and the inspection tool handlers of       *)
(* chrome-devtools-mcp (src/src/utils/cdpHelper.ts).                       *)
(*                                                                         *)
(* A tool call is an async handler.  Between two awaits a handler runs     *)
(* without interruption, so one action of the model is "the response to    *)
(* the awaited command arrives and the handler runs up to its next await". *)
(* call[c].inflight says that a command of call c is awaiting its response;*)
(* the awaited command is the last entry of call[c].log.                   *)
(***************************************************************************)
EXTENDS Integers, Sequences, FiniteSets, TLC

(* ------------------------------ bounds -------------------------------- *)

\* number of tool calls one behaviour starts
MaxStarts == 2
\* the node ids the browser answers with, 0 for none
NodeIds == {0, 1, 2}
\* longest nodeIds list in an answer to DOM.pushNodesByBackendIdsToFrontend
MaxPushLen == 2
\* largest depth parameter of a get_dom_tree request
MaxDepth == 2
\* most nodes in a node tree DOM.describeNode answers with
MaxTreeNodes == 4

\* longest list of properties in a request
MaxProps == 2

\* longest computedStyle list
MaxStyleLen == 2

\* most documents in a snapshot
MaxDocs == 2

\* cookies in the browser
MaxCookies == 2

\* tool calls in a behaviour of all the tools together
MaxToolCalls == 1

(* --------------------------- the environment -------------------------- *)

Pages == {"pA", "pB"}

\* A session is named by its page and a serial number; serial 0 is the
\* page's own client, the one page._client() returns.
Sessions == [page : Pages, n : 0..MaxStarts]

Slots == {1, 2}

Domains == {"DOM", "CSS", "Overlay", "Accessibility", "DOMSnapshot"}

EnableOf(d) ==
  CASE d = "DOM" -> "DOM.enable"
    [] d = "CSS" -> "CSS.enable"
    [] d = "Overlay" -> "Overlay.enable"
    [] d = "Accessibility" -> "Accessibility.enable"
    [] d = "DOMSnapshot" -> "DOMSnapshot.enable"

EnableCmds == {EnableOf(d) : d \in Domains}

DomCmds ==
  {"DOM.enable", "DOM.getDocument", "DOM.pushNodesByBackendIdsToFrontend",
   "DOM.describeNode", "DOM.getAttributes", "DOM.getBoxModel",
   "DOM.getOuterHTML", "DOM.getContentQuads", "DOM.requestChildNodes",
   "DOM.resolveNode", "DOM.querySelector", "DOM.querySelectorAll",
   "DOM.getNodeForLocation", "DOM.performSearch", "DOM.getSearchResults",
   "DOM.discardSearchResults"}

CssCmds ==
  {"CSS.enable", "CSS.getComputedStyleForNode", "CSS.getMatchedStylesForNode",
   "CSS.forcePseudoState", "CSS.getPlatformFontsForNode"}

OverlayCmds ==
  {"Overlay.enable", "Overlay.highlightNode", "Overlay.hideHighlight",
   "Overlay.setShowGridOverlays", "Overlay.setShowFlexOverlays"}

AccessibilityCmds ==
  {"Accessibility.enable", "Accessibility.getAXNodeAndAncestors",
   "Accessibility.getPartialAXTree"}

DomSnapshotCmds == {"DOMSnapshot.enable", "DOMSnapshot.captureSnapshot"}

\* The protocol domain of a command ("None" for DOMDebugger and Runtime,
\* which the handlers never enable).
DomainOf(cmd) ==
  CASE cmd \in DomCmds -> "DOM"
    [] cmd \in CssCmds -> "CSS"
    [] cmd \in OverlayCmds -> "Overlay"
    [] cmd \in AccessibilityCmds -> "Accessibility"
    [] cmd \in DomSnapshotCmds -> "DOMSnapshot"
    [] OTHER -> "None"

\* The uid strings a request carries.
UIDs == {"", "u1", "u2", "zz"}

\* context.getAXNodeByUid: the table the last snapshot left.  "u1" names a
\* node with a backend node id, "u2" an entry without one, and the other
\* strings are not in the table.
getAXNodeByUid(uid) ==
  CASE uid = "u1" -> [found |-> TRUE, backendNodeId |-> 7]
    [] uid = "u2" -> [found |-> TRUE, backendNodeId |-> 0]
    [] OTHER -> [found |-> FALSE, backendNodeId |-> 0]

\* !axNode?.backendNodeId
NoBackendNodeId(uid) ==
  \/ ~getAXNodeByUid(uid).found
  \/ getAXNodeByUid(uid).backendNodeId = 0

\* The answers of the browser to DOM.pushNodesByBackendIdsToFrontend that
\* carry a result: the nodeIds field absent, or a list of node ids, 0 for an
\* id the browser could not resolve.
RECURSIVE SeqsUpTo(_, _)
SeqsUpTo(S, n) ==
  IF n = 0 THEN {<<>>}
  ELSE LET shorter == SeqsUpTo(S, n - 1)
       IN shorter \cup {Append(q, x) : q \in shorter, x \in S}

PushResponses ==
  {[present |-> FALSE, nodeIds |-> <<>>]}
    \cup {[present |-> TRUE, nodeIds |-> q] : q \in SeqsUpTo(NodeIds, MaxPushLen)}

\* Math.min, Math.max
Min(a, b) == IF a <= b THEN a ELSE b

Max(a, b) == IF a >= b THEN a ELSE b

(* ------------------------------- errors ------------------------------- *)

NoError == [kind |-> "none", info |-> ""]
\* `Could not find element with UID "${uid}"...`
UnknownUidError(uid) == [kind |-> "UnknownUid", info |-> uid]
\* 'Could not resolve backendNodeId to nodeId'
ResolutionError == [kind |-> "Resolution", info |-> ""]
\* the rejection of client.send(cmd)
ProtocolError(cmd) == [kind |-> "Protocol", info |-> cmd]
\* 'You must set "confirm" to true to clear ...'
ConfirmError == [kind |-> "Confirm", info |-> ""]
\* an exception of the statements that build the response line
FormatError == [kind |-> "Format", info |-> ""]

(* -------------------------------- state ------------------------------- *)

VARIABLES
  call,         \* per slot: the handler invocation running in it
  started,      \* number of tool calls started
  sessions,     \* the sessions handed to handlers so far
  enableSent,   \* per session and domain: enable commands sent
  enabledOk,    \* per session: domains whose enable the browser accepted
  enableFailed, \* <<session, domain>>: an enable the browser rejected
  rawUse,       \* commands sent for a domain not enabled on the session
  timers,       \* per session: the auto-hide timers and the highlight shown
  undetached,   \* sessions made by createCDPSession, detach() not yet called
  walk,         \* a described node tree, a depth, and the tree formatNode made
  cmp,          \* compare_elements: the property list, the style maps, the result
  snap          \* capture_dom_snapshot: the snapshot and the output made of it

\* the state of the handlers and of the browser side
handlerVars == <<call, started, sessions, enableSent, enabledOk,
                 enableFailed, rawUse, timers, undetached>>

vars == <<call, started, sessions, enableSent, enabledOk,
          enableFailed, rawUse, timers, undetached, walk, cmp, snap>>

IdleCall ==
  [tool |-> "none", pc |-> "idle", inflight |-> FALSE,
   page |-> "pA", client |-> [page |-> "pA", n |-> 0],
   hasUid |-> FALSE, uid |-> "", uid2 |-> "", flag |-> FALSE,
   todo |-> <<>>, cmds |-> <<>>, log |-> <<>>,
   pushResp |-> <<>>, nodeId |-> 0, nodeId2 |-> 0, objectId |-> 0,
   lines |-> 0, err |-> NoError,
   pageRead |-> FALSE, confirm |-> "absent", detaches |-> 0,
   pending |-> NoError, depth |-> 0,
   arrived |-> <<>>, styles |-> <<0, 0>>,
   limit |-> 0, nodeIds |-> <<>>, elements |-> <<>>, out |-> <<>>,
   searchId |-> 0, resultCount |-> 0,
   quad |-> <<>>, cookies |-> <<>>, domainFilter |-> <<>>,
   inlineStyle |-> [present |-> FALSE, list |-> <<>>],
   properties |-> [present |-> FALSE, list |-> <<>>]]

\* the one-node tree of a DIV without attributes, not yet formatted
IdleWalk ==
  [node |-> [parent |-> <<0>>,
             kinds |-> <<[nodeType |-> 1, nodeName |-> "DIV", attributes |-> <<>>]>>],
   depth |-> 1, tree |-> [null |-> TRUE], done |-> FALSE]

\* No timer was scheduled and nothing is highlighted.  shown: a highlight
\* is on the page; own: the setTimeout callback of the call that put it
\* there is still to run; others: the callbacks of earlier calls still to
\* run; hides: the Overlay.hideHighlight commands the callbacks sent;
\* awaiting: those of them not yet answered; unhandled: rejections that
\* left a callback.
IdleTimers ==
  [shown |-> FALSE, own |-> FALSE, others |-> 0, hides |-> 0, awaiting |-> 0,
   unhandled |-> 0]

\* compare_elements before its comparison: nothing read yet
IdleCmp ==
  [pc |-> "idle", props |-> <<>>, styleMap1 |-> <<>>, styleMap2 |-> <<>>,
   differences |-> <<>>, same |-> <<>>, differenceCount |-> 0]

\* capture_dom_snapshot before its answer
IdleSnap ==
  [pc |-> "idle", docs |-> <<>>, documentCount |-> 0, documents |-> <<>>,
   note |-> FALSE]

Init ==
  /\ call = [c \in Slots |-> IdleCall]
  /\ started = 0
  /\ sessions = {}
  /\ enableSent = [s \in Sessions |-> [d \in Domains |-> 0]]
  /\ enabledOk = [s \in Sessions |-> {}]
  /\ enableFailed = {}
  /\ rawUse = {}
  /\ timers = [s \in Sessions |-> IdleTimers]
  /\ undetached = {}
  /\ walk = IdleWalk
  /\ cmp = IdleCmp
  /\ snap = IdleSnap

(* ------------------------- src/utils/cdpHelper ------------------------ *)

\* getCdpSession(page): page._client(), the page's own client.  The function
\* creates nothing and keeps nothing; what _client() gives is Puppeteer's
\* affair, taken here to be the one client of the page.
getCdpSession(page) == [page |-> page, n |-> 0]


\* resolveToNodeId: the parameters of its one command.
pushParams(backendNodeId) == <<backendNodeId>>

\* Variant: the last id of the answer is taken, not the first.
resolveToNodeId_lastId(resp) ==
  IF \/ ~resp.present
     \/ Len(resp.nodeIds) = 0
     \/ resp.nodeIds[Len(resp.nodeIds)] = 0
  THEN [ok |-> FALSE, nodeId |-> 0]
  ELSE [ok |-> TRUE, nodeId |-> resp.nodeIds[Len(resp.nodeIds)]]

\* Variant: the check `nodeIds[0] === 0` is missing.
resolveToNodeId_noZeroCheck(resp) ==
  IF \/ ~resp.present
     \/ Len(resp.nodeIds) = 0
  THEN [ok |-> FALSE, nodeId |-> 0]
  ELSE [ok |-> TRUE, nodeId |-> resp.nodeIds[1]]

\* resolveToNodeId: what it makes of the answer; ok = FALSE is the throw.
resolveToNodeId(resp) ==
  IF \/ ~resp.present
     \/ Len(resp.nodeIds) = 0
     \/ resp.nodeIds[1] = 0
  THEN [ok |-> FALSE, nodeId |-> 0]
  ELSE [ok |-> TRUE, nodeId |-> resp.nodeIds[1]]

\* Variant: DOM is marked enabled on the client when the enable goes out,
\* whatever its answer, and a marked domain is not enabled again.
ensureDomEnabled_markedOnSend(client) ==
  IF enableSent[client]["DOM"] > 0 THEN <<>>
  ELSE <<"DOM.enable", "DOM.getDocument">>

\* The commands each ensure function sends on the client, in order.
ensureDomEnabled(client) == <<"DOM.enable", "DOM.getDocument">>

\* Variant: one enabled-domain mark shared by all sessions.
ensureCssEnabled_sharedMark(client) ==
  IF \E s \in Sessions : "CSS" \in enabledOk[s] THEN <<>>
  ELSE <<"CSS.enable">>

ensureCssEnabled(client) == <<"CSS.enable">>

ensureOverlayEnabled(client) == <<"Overlay.enable">>

EnsureCmds(fn, client) ==
  CASE fn = "DOM" -> ensureDomEnabled(client)
    [] fn = "CSS" -> ensureCssEnabled(client)
    [] fn = "Overlay" -> ensureOverlayEnabled(client)

(* ------------------------ steps of a handler -------------------------- *)

Cmd(name, arg) == [cmd |-> name, arg |-> arg]

\* client.send(name, arg): the command goes out and the handler awaits it.
Send(k, pc, name, arg) ==
  [k EXCEPT !.pc = pc, !.inflight = TRUE, !.log = Append(@, Cmd(name, arg))]

\* an exception leaves the handler
Throw(k, err) == [k EXCEPT !.pc = "failed", !.inflight = FALSE, !.err = err]

\* response.appendResponseLine(...)
AppendLine(k) == [k EXCEPT !.lines = @ + 1]

\* the handler returns
Return(k) == [k EXCEPT !.pc = "done", !.inflight = FALSE]

\* the command call c awaits
Pending(k) == k.log[Len(k.log)].cmd

\* The commands of `sent` on session s change the bookkeeping of the
\* browser side: en is the enabled-domain state at the time they go out.
SentEffects(s, tool, sent, en) ==
  /\ enableSent' =
       [t \in Sessions |->
         [d \in Domains |->
           enableSent[t][d]
             + (IF t = s
                THEN Cardinality({i \in DOMAIN sent : sent[i].cmd = EnableOf(d)})
                ELSE 0)]]
  /\ rawUse' =
       rawUse \cup
         {[sess |-> s, cmd |-> sent[i].cmd, tool |-> tool] :
            i \in {j \in DOMAIN sent :
                     /\ DomainOf(sent[j].cmd) \in Domains
                     /\ sent[j].cmd \notin EnableCmds
                     /\ DomainOf(sent[j].cmd) \notin en[s]}}

\* Overlay.highlightNode is answered: the highlight is on the page, in the
\* place of the one before, whose timer stays
highlighted(t) ==
  [t EXCEPT !.shown = TRUE, !.own = FALSE,
            !.others = @ + (IF t.own THEN 1 ELSE 0)]

\* Variant: a new timer replaces the ones scheduled before (clearTimeout).
setTimeoutHide_replacing(t, timed) ==
  IF timed THEN [t EXCEPT !.own = TRUE, !.others = 0] ELSE t

\* Variant: the timer is set whatever the duration.
setTimeoutHide_always(t, timed) == [t EXCEPT !.own = TRUE]

\* if (request.params.duration > 0) setTimeout(async () => {...}, duration)
setTimeoutHide(t, timed) == [t EXCEPT !.own = timed]

\* Call c, awaiting a command, gets its answer (ok or a protocol error) and
\* runs to its next await, which leaves it as nk.
Resume(c, ok, nk, tmr) ==
  LET k == call[c]
      s == k.client
      p == Pending(k)
      en == IF p \in EnableCmds /\ ok
            THEN [enabledOk EXCEPT ![s] = @ \cup {DomainOf(p)}]
            ELSE enabledOk
      sent == SubSeq(nk.log, Len(k.log) + 1, Len(nk.log))
  IN /\ k.inflight
     /\ call' = [call EXCEPT ![c] = nk]
     /\ enabledOk' = en
     /\ enableFailed' =
          IF p \in EnableCmds /\ ~ok
          THEN enableFailed \cup {<<s, DomainOf(p)>>}
          ELSE enableFailed
     /\ SentEffects(s, k.tool, sent, en)
     /\ timers' =
          [timers EXCEPT ![s] =
             IF p = "Overlay.highlightNode" /\ ok
             THEN setTimeoutHide(highlighted(@), tmr = 1)
             ELSE IF p = "Overlay.hideHighlight" /\ ok
             THEN [@ EXCEPT !.shown = FALSE]
             ELSE @]
     /\ UNCHANGED <<started, sessions, undetached, walk, cmp, snap>>

\* Call c, awaiting no command (an await of an async function that sent
\* nothing more), runs to its next await, which leaves it as nk.
Continue(c, nk) ==
  LET k == call[c]
      sent == SubSeq(nk.log, Len(k.log) + 1, Len(nk.log))
  IN /\ ~k.inflight
     /\ call' = [call EXCEPT ![c] = nk]
     /\ SentEffects(k.client, k.tool, sent, enabledOk)
     /\ UNCHANGED <<started, sessions, enabledOk, enableFailed, timers, undetached, walk, cmp, snap>>

\* Variant: the node id of the call before is still there.
Begin_nodeIdKept(c, tool, prelude) ==
  /\ call[c].pc \in {"idle", "done", "failed"}
  /\ started < MaxStarts
  /\ started' = started + 1
  /\ \E page \in Pages :
       /\ call' = [call EXCEPT ![c] =
            [IdleCall EXCEPT !.tool = tool, !.pc = "prelude", !.page = page,
                             !.pageRead = TRUE, !.nodeId = call[c].nodeId,
                             !.client = getCdpSession(page), !.todo = prelude]]
       /\ sessions' = sessions \cup {getCdpSession(page)}
  /\ UNCHANGED <<enableSent, enabledOk, enableFailed, rawUse, timers, undetached, walk, cmp, snap>>

\* The handler of `tool` is invoked in slot c:
\*   const page = context.getSelectedPage();
\*   const client = await getCdpSession(page);
\* and `prelude` names the ensure functions it awaits next.  The request's
\* parameters are drawn where the handler first reads them.
Begin(c, tool, prelude) ==
  /\ call[c].pc \in {"idle", "done", "failed"}
  /\ started < MaxStarts
  /\ started' = started + 1
  /\ \E page \in Pages :
       /\ call' = [call EXCEPT ![c] =
            [IdleCall EXCEPT !.tool = tool, !.pc = "prelude", !.page = page,
                             !.pageRead = TRUE,
                             !.client = getCdpSession(page), !.todo = prelude]]
       /\ sessions' = sessions \cup {getCdpSession(page)}
  /\ UNCHANGED <<enableSent, enabledOk, enableFailed, rawUse, timers, undetached, walk, cmp, snap>>

\* The handler's record as its next step starts: the answer to the last
\* push has been consumed.
Local(c) == [call[c] EXCEPT !.pushResp = <<>>]

\* The awaits of getCdpSession and of the ensure functions:
\* each ensure function sends its commands one after the other, and a
\* rejected command leaves the handler as its exception.
ensureEnabled(c) ==
  LET k == Local(c)
  IN /\ k.pc = "prelude"
     /\ \/ /\ k.inflight
           /\ Resume(c, FALSE, Throw(k, ProtocolError(Pending(k))), 0)
        \/ /\ k.inflight
           /\ Resume(c, TRUE,
                IF k.cmds # <<>>
                THEN Send([k EXCEPT !.cmds = Tail(@)], "prelude", Head(k.cmds), <<>>)
                ELSE [k EXCEPT !.inflight = FALSE], 0)
        \/ /\ ~k.inflight
           /\ k.todo # <<>>
           /\ LET cs == EnsureCmds(Head(k.todo), k.client)
                  k1 == [k EXCEPT !.todo = Tail(@)]
              IN Continue(c,
                   IF cs = <<>> THEN k1
                   ELSE Send([k1 EXCEPT !.cmds = Tail(cs)], "prelude", Head(cs), <<>>))

\* the ensure functions of the handler have all returned
Ensured(c, tool) ==
  /\ call[c].tool = tool
  /\ call[c].pc = "prelude"
  /\ ~call[c].inflight
  /\ call[c].todo = <<>>

At(c, tool, pc) ==
  /\ call[c].tool = tool
  /\ call[c].pc = pc
  /\ call[c].inflight

AtRest(c, tool, pc) ==
  /\ call[c].tool = tool
  /\ call[c].pc = pc
  /\ ~call[c].inflight

\* the awaited command is rejected and nothing catches the rejection
Fails(c) == Resume(c, FALSE, Throw(Local(c), ProtocolError(Pending(call[c]))), 0)

\* the awaited command is answered and the handler goes on as nk
Then(c, nk) == Resume(c, TRUE, nk, 0)

\* try { await client.send(...) } catch {}: answered or rejected, on as nk
Either(c, nk) == \E ok \in BOOLEAN : Resume(c, ok, nk, 0)

\* Variant: the backend node id is pushed without the check of the lookup.
LookupAndPush_unchecked(k0, uid, pc) ==
  Send([k0 EXCEPT !.hasUid = TRUE, !.uid = uid], pc,
       "DOM.pushNodesByBackendIdsToFrontend",
       pushParams(getAXNodeByUid(uid).backendNodeId))

\* const axNode = context.getAXNodeByUid(uid);
\* if (!axNode?.backendNodeId) throw ...;
\* const nodeId = await resolveToNodeId(client, axNode.backendNodeId);
LookupAndPush(k0, uid, pc) ==
  LET k == [k0 EXCEPT !.hasUid = TRUE, !.uid = uid]
  IN IF NoBackendNodeId(uid)
     THEN Throw(k, UnknownUidError(uid))
     ELSE Send(k, pc, "DOM.pushNodesByBackendIdsToFrontend",
               pushParams(getAXNodeByUid(uid).backendNodeId))

\* Variant: a line is appended before the resolution error leaves the handler.
AfterPush_lineBeforeThrow(k, resp, pc, name) ==
  LET r == resolveToNodeId(resp)
  IN IF r.ok
     THEN [Send([k EXCEPT !.nodeId = r.nodeId], pc, name, <<r.nodeId>>)
             EXCEPT !.pushResp = <<resp>>]
     ELSE Throw(AppendLine([k EXCEPT !.pushResp = <<resp>>]), ResolutionError)

\* resolveToNodeId returns or throws on the answer resp; with a node id the
\* handler sends `name` for that node.
AfterPush(k, resp, pc, name) ==
  LET r == resolveToNodeId(resp)
  IN IF r.ok
     THEN [Send([k EXCEPT !.nodeId = r.nodeId], pc, name, <<r.nodeId>>)
             EXCEPT !.pushResp = <<resp>>]
     ELSE Throw([k EXCEPT !.pushResp = <<resp>>], ResolutionError)

\* the push of resolveToNodeId is answered
Resolve(c, pc, name) ==
  \/ Fails(c)
  \/ \E resp \in PushResponses : Then(c, AfterPush(Local(c), resp, pc, name))

(* ----------------------------- inspect_element ------------------------ *)

inspectElement(c) ==
  LET k == Local(c)
      T == "inspect_element"
  IN \/ Begin(c, T, <<"DOM">>)
     \/ /\ Ensured(c, T)
        /\ \E uid \in UIDs : Continue(c, LookupAndPush(k, uid, "push"))
     \/ /\ At(c, T, "push")
        /\ Resolve(c, "describeNode", "DOM.describeNode")
     \/ /\ At(c, T, "describeNode")
        /\ \/ Fails(c)
           \/ Then(c, Send(k, "getAttributes", "DOM.getAttributes", <<k.nodeId>>))
     \/ /\ At(c, T, "getAttributes")
        /\ \/ Fails(c)
           \/ Then(c, Send(k, "getBoxModel", "DOM.getBoxModel", <<k.nodeId>>))
     \/ /\ At(c, T, "getBoxModel")
        /\ \E includeHtml \in BOOLEAN :
             Either(c, IF includeHtml
                       THEN Send([k EXCEPT !.flag = TRUE], "getOuterHTML",
                                 "DOM.getOuterHTML", <<k.nodeId>>)
                       ELSE Return(AppendLine(k)))
     \/ /\ At(c, T, "getOuterHTML")
        /\ Either(c, Return(AppendLine(k)))

(* --------------------------- get_element_styles ----------------------- *)

\* response.appendResponseLine(JSON.stringify(doc))
Respond(k, doc) == [AppendLine(k) EXCEPT !.out = Append(@, doc)]

\* filterProps.includes(name), propsToCompare.includes(name)
includes(list, name) == \E i \in DOMAIN list : list[i] = name

\* result[name] = value on a {}: an own property, but for "__proto__", the
\* setter of Object.prototype, which drops a string
setOwn(result, name, value) ==
  IF name = "__proto__" THEN result ELSE (name :> value) @@ result

\* if (prop.disabled) continue;
\* if (!prop.value) continue;
\* if (filterProps && !filterProps.includes(prop.name)) continue;
qualifies(prop, filterProps) ==
  /\ ~prop.disabled
  /\ prop.value # ""
  /\ filterProps.present => includes(filterProps.list, prop.name)

\* cssPropertiesToObject(properties, filterProps): the own properties of
\* the result are the function's domain
RECURSIVE cssPropertiesToObject(_, _)
cssPropertiesToObject(properties, filterProps) ==
  IF properties = <<>> THEN <<>>
  ELSE LET n == Len(properties)
           prop == properties[n]
           result == cssPropertiesToObject(SubSeq(properties, 1, n - 1), filterProps)
       IN IF qualifies(prop, filterProps)
          THEN setOwn(result, prop.name, prop.value)
          ELSE result

\* the names and values of inline properties
CssNames == {"color", "__proto__"}

CssValues == {"", "a", "b"}

\* matched.inlineStyle?.cssProperties, absent or a list, and the request's
\* properties, absent or a list
MatchedStyles(maxLen, maxProps) ==
  [inlineStyle :
     {[present |-> FALSE, list |-> <<>>]}
       \cup {[present |-> TRUE, list |-> l] :
               l \in SeqsUpTo([name : CssNames, value : CssValues,
                               disabled : BOOLEAN], maxLen)},
   properties :
     {[present |-> FALSE, list |-> <<>>]}
       \cup {[present |-> TRUE, list |-> l] : l \in SeqsUpTo(CssNames, maxProps)}]

\* an element without inline style, and no properties in the request
NoInlineStyle ==
  {[inlineStyle |-> [present |-> FALSE, list |-> <<>>],
    properties |-> [present |-> FALSE, list |-> <<>>]]}

\* const result = {}; if (includeComputed) result.computed = computed;
\* if (matched.inlineStyle?.cssProperties) { const inline = ...;
\*   if (Object.keys(inline).length > 0) result.inline = inline; }
\* The fields of the document are the function's domain; the computed
\* mapping is not described.
stylesResult(includeComputed, inlineStyle, properties) ==
  LET inline == cssPropertiesToObject(inlineStyle.list, properties)
      result == IF includeComputed THEN ("computed" :> <<>>) ELSE <<>>
  IN IF inlineStyle.present /\ Cardinality(DOMAIN inline) > 0
     THEN ("inline" :> inline) @@ result
     ELSE result

\* flag: includeComputed
getElementStylesOf(c, matched) ==
  LET k == Local(c)
      T == "get_element_styles"
  IN \/ Begin(c, T, <<"DOM", "CSS">>)
     \/ /\ Ensured(c, T)
        /\ \E uid \in UIDs : Continue(c, LookupAndPush(k, uid, "push"))
     \/ /\ At(c, T, "push")
        /\ \/ Fails(c)
           \/ \E resp \in PushResponses, includeComputed \in BOOLEAN :
                LET k1 == IF resolveToNodeId(resp).ok
                          THEN [k EXCEPT !.flag = includeComputed]
                          ELSE k
                IN Then(c, IF includeComputed
                           THEN AfterPush(k1, resp, "getComputedStyle",
                                          "CSS.getComputedStyleForNode")
                           ELSE AfterPush(k1, resp, "getMatchedStyles",
                                          "CSS.getMatchedStylesForNode"))
     \/ /\ At(c, T, "getComputedStyle")
        /\ \/ Fails(c)
           \/ Then(c, Send(k, "getMatchedStyles",
                           "CSS.getMatchedStylesForNode", <<k.nodeId>>))
     \/ /\ At(c, T, "getMatchedStyles")
        /\ \/ Fails(c)
           \/ \E m \in matched :
                Then(c, Return(Respond(
                          [k EXCEPT !.inlineStyle = m.inlineStyle,
                                    !.properties = m.properties],
                          stylesResult(k.flag, m.inlineStyle, m.properties))))

getElementStyles(c) == getElementStylesOf(c, NoInlineStyle)

(* -------------------------- get_element_box_model --------------------- *)

\* Variant: the first corner is taken for the top left one and the third
\* for the bottom right one.
formatQuad_cornersInOrder(quad) ==
  [x |-> quad[1], y |-> quad[2],
   width |-> quad[5] - quad[1], height |-> quad[6] - quad[2]]

\* formatQuad(quad): quad is x1,y1, x2,y2, x3,y3, x4,y4
formatQuad(quad) ==
  LET x == Min(Min(quad[1], quad[3]), Min(quad[5], quad[7]))
      y == Min(Min(quad[2], quad[4]), Min(quad[6], quad[8]))
      width == Max(Max(quad[1], quad[3]), Max(quad[5], quad[7])) - x
      height == Max(Max(quad[2], quad[4]), Max(quad[6], quad[8])) - y
  IN [x |-> x, y |-> y, width |-> width, height |-> height]

\* the x and y coordinates of a corner
XCoords == {-1, 0, 2}

YCoords == {0, 2}

\* model.content of the answer to DOM.getBoxModel: any four corners
Quads ==
  {quad \in [1..8 -> XCoords \cup YCoords] :
     \A i \in 1..4 : quad[2 * i] \in YCoords}

\* the quad of a square box, its corners clockwise from the top left
SquareQuad == {<<0, 0, 2, 0, 2, 2, 0, 2>>}

\* quad: model.content
getElementBoxModelOf(c, quads) ==
  LET k == Local(c)
      T == "get_element_box_model"
  IN \/ Begin(c, T, <<"DOM">>)
     \/ /\ Ensured(c, T)
        /\ \E uid \in UIDs : Continue(c, LookupAndPush(k, uid, "push"))
     \/ /\ At(c, T, "push")
        /\ Resolve(c, "getBoxModel", "DOM.getBoxModel")
     \/ /\ At(c, T, "getBoxModel")
        /\ \/ Fails(c)
           \/ \E quad \in quads :
                Then(c, Send([k EXCEPT !.quad = quad], "getContentQuads",
                             "DOM.getContentQuads", <<k.nodeId>>))
     \/ /\ At(c, T, "getContentQuads")
        /\ Either(c, Return(Respond(k, [content |-> formatQuad(k.quad)])))

getElementBoxModel(c) == getElementBoxModelOf(c, SquareQuad)

(* ----------------------------- highlight_element ---------------------- *)

\* flag: duration > 0
highlightElement(c) ==
  LET k == Local(c)
      T == "highlight_element"
  IN \/ Begin(c, T, <<"DOM", "Overlay">>)
     \/ /\ Ensured(c, T)
        /\ \E uid \in UIDs :
             LET k1 == [k EXCEPT !.hasUid = TRUE, !.uid = uid]
             IN Continue(c,
                  IF NoBackendNodeId(uid)
                  THEN Throw(k1, UnknownUidError(uid))
                  ELSE Send(k1, "highlightNode", "Overlay.highlightNode",
                            <<getAXNodeByUid(uid).backendNodeId>>))
     \/ /\ At(c, T, "highlightNode")
        /\ \/ Fails(c)
           \/ \E timed \in BOOLEAN :
                Resume(c, TRUE, Return(AppendLine([k EXCEPT !.flag = timed])),
                       IF timed THEN 1 ELSE 0)

\* Variant: the rejection leaves the callback.
swallow_rethrown(t, ok) ==
  IF ok THEN t ELSE [t EXCEPT !.unhandled = @ + 1]

\* try { await client.send('Overlay.hideHighlight') } catch {}: the answer
\* to the callback's command, ok or a rejection
swallow(t, ok) ==
  IF ok THEN [t EXCEPT !.shown = FALSE] ELSE t

\* A callback of setTimeout runs, on the client the handler held: it sends
\* Overlay.hideHighlight and awaits the answer.  isOwn: it is the callback
\* of the call whose highlight was last put on the page.
autoHide(s) ==
  /\ \E isOwn \in BOOLEAN :
       /\ IF isOwn THEN timers[s].own ELSE timers[s].others > 0
       /\ timers' = [timers EXCEPT ![s] =
                       [@ EXCEPT !.own = IF isOwn THEN FALSE ELSE @,
                                 !.others = IF isOwn THEN @ ELSE @ - 1,
                                 !.hides = @ + 1,
                                 !.awaiting = @ + 1]]
  /\ SentEffects(s, "autoHide", <<Cmd("Overlay.hideHighlight", <<>>)>>, enabledOk)
  /\ UNCHANGED <<call, started, sessions, enabledOk, enableFailed, undetached, walk, cmp, snap>>

\* The command of a callback is answered, in a later turn of the event
\* loop: the callback takes the answer and ends.
autoHideAnswered(s) ==
  /\ timers[s].awaiting > 0
  /\ \E ok \in BOOLEAN :
       timers' = [timers EXCEPT ![s] = swallow([@ EXCEPT !.awaiting = @ - 1], ok)]
  /\ UNCHANGED <<call, started, sessions, enableSent, enabledOk, enableFailed, rawUse,
                 undetached, walk, cmp, snap>>

(* ------------------------------- hide_highlight ----------------------- *)

\* Variant: the rejection of the command leaves the handler.
hideAnswered_uncaught(k, ok) ==
  IF ok THEN Return(AppendLine([k EXCEPT !.flag = TRUE]))
  ELSE Throw(k, ProtocolError("Overlay.hideHighlight"))

\* try { await client.send('Overlay.hideHighlight');
\*       response.appendResponseLine('Highlight hidden.');
\* } catch { response.appendResponseLine('No highlight was active.'); }
\* flag: the line is 'Highlight hidden.'
hideAnswered(k, ok) ==
  IF ok THEN Return(AppendLine([k EXCEPT !.flag = TRUE]))
  ELSE Return(AppendLine([k EXCEPT !.flag = FALSE]))

hideHighlight(c) ==
  LET k == Local(c)
      T == "hide_highlight"
  IN \/ Begin(c, T, <<>>)
     \/ /\ Ensured(c, T)
        /\ Continue(c, Send(k, "hideHighlight", "Overlay.hideHighlight", <<>>))
     \/ /\ At(c, T, "hideHighlight")
        /\ \E ok \in BOOLEAN : Resume(c, ok, hideAnswered(k, ok), 0)

(* -------------------------------- get_dom_tree ------------------------ *)

\* Variant: the node is described as soon as requestChildNodes is answered.
settle_none(k) == Send(k, "describeNode", "DOM.describeNode", <<k.nodeId, k.depth>>)

\* await new Promise(resolve => setTimeout(resolve, 100))
settle(k) == [k EXCEPT !.pc = "delay", !.inflight = FALSE]

\* hasUid: the request carries a uid parameter; depth: its depth parameter,
\* one of depths
getDomTreeOf(c, depths) ==
  LET k == Local(c)
      T == "get_dom_tree"
  IN \/ Begin(c, T, <<"DOM">>)
     \/ /\ Ensured(c, T)
        /\ \E hasUid \in BOOLEAN, uid \in UIDs, depth \in depths :
             /\ ~hasUid => uid = ""
             \* if (request.params.uid): an absent uid and "" are both falsy
             /\ Continue(c,
                  IF hasUid /\ uid # ""
                  THEN LookupAndPush([k EXCEPT !.depth = depth], uid, "push")
                  ELSE Send([k EXCEPT !.hasUid = hasUid, !.uid = uid, !.depth = depth],
                            "getDocument", "DOM.getDocument", <<depth>>))
     \/ /\ At(c, T, "push")
        /\ \/ Fails(c)
           \/ \E resp \in PushResponses :
                LET r == resolveToNodeId(resp)
                IN Then(c,
                     IF r.ok
                     THEN [Send([k EXCEPT !.nodeId = r.nodeId], "requestChildNodes",
                                "DOM.requestChildNodes", <<r.nodeId, k.depth>>)
                             EXCEPT !.pushResp = <<resp>>]
                     ELSE Throw([k EXCEPT !.pushResp = <<resp>>], ResolutionError))
     \* rootNodeId = root.nodeId, taken as answered
     \/ /\ At(c, T, "getDocument")
        /\ \/ Fails(c)
           \/ \E root \in NodeIds :
                Then(c, Send([k EXCEPT !.nodeId = root], "requestChildNodes",
                             "DOM.requestChildNodes", <<root, k.depth>>))
     \/ /\ At(c, T, "requestChildNodes")
        /\ \/ Fails(c)
           \/ Then(c, settle(k))
     \/ /\ AtRest(c, T, "delay")
        /\ Continue(c, Send(k, "describeNode", "DOM.describeNode",
                            <<k.nodeId, k.depth>>))
     \/ /\ At(c, T, "describeNode")
        /\ \/ Fails(c)
           \/ Then(c, Return(AppendLine(k)))

\* the handler on requests with a depth of the bounds
getDomTree(c) == getDomTreeOf(c, 1..MaxDepth)

\* schema.depth: zod.number().int().min(1).max(10).optional().default(3)
DepthMin == 1

DepthMax == 10

DepthDefault == 3

SchemaError == [kind |-> "Schema", info |-> "depth"]

\* The depth parameters of a request: absent, or an integer.
DepthInputs ==
  {[present |-> FALSE, value |-> 0]}
    \cup {[present |-> TRUE, value |-> v] : v \in (DepthMin - 2)..(2 * DepthMax + 1)}

\* what the schema makes of a depth parameter
depthSchema(input) ==
  IF ~input.present THEN [ok |-> TRUE, value |-> DepthDefault]
  ELSE [ok |-> input.value >= DepthMin /\ input.value <= DepthMax,
        value |-> input.value]

AcceptedDepths ==
  {depthSchema(input).value : input \in {i \in DepthInputs : depthSchema(i).ok}}

\* A get_dom_tree request whose depth the schema rejects: the handler is
\* not invoked.
rejectDepth(c) ==
  /\ call[c].pc \in {"idle", "done", "failed"}
  /\ started < MaxStarts
  /\ started' = started + 1
  /\ \E input \in DepthInputs :
       /\ ~depthSchema(input).ok
       /\ call' = [call EXCEPT ![c] =
            Throw([IdleCall EXCEPT !.tool = "get_dom_tree",
                                   !.depth = depthSchema(input).value],
                  SchemaError)]
  /\ UNCHANGED <<sessions, enableSent, enabledOk, enableFailed, rawUse, timers,
                 undetached, walk, cmp, snap>>

(* ---------------------------- capture_dom_snapshot -------------------- *)

captureDomSnapshot(c) ==
  LET k == Local(c)
      T == "capture_dom_snapshot"
  IN \/ Begin(c, T, <<>>)
     \/ /\ Ensured(c, T)
        /\ Continue(c, Send(k, "snapshotEnable", "DOMSnapshot.enable", <<>>))
     \/ /\ At(c, T, "snapshotEnable")
        /\ \/ Fails(c)
           \/ Then(c, Send(k, "captureSnapshot", "DOMSnapshot.captureSnapshot", <<>>))
     \/ /\ At(c, T, "captureSnapshot")
        /\ \/ Fails(c)
           \/ Then(c, Return(AppendLine(k)))

(* ----------------------------- force_element_state -------------------- *)

forceElementState(c) ==
  LET k == Local(c)
      T == "force_element_state"
  IN \/ Begin(c, T, <<"DOM", "CSS">>)
     \/ /\ Ensured(c, T)
        /\ \E uid \in UIDs : Continue(c, LookupAndPush(k, uid, "push"))
     \/ /\ At(c, T, "push")
        /\ Resolve(c, "forcePseudoState", "CSS.forcePseudoState")
     \/ /\ At(c, T, "forcePseudoState")
        /\ \/ Fails(c)
           \/ Then(c, Return(AppendLine(k)))

(* ------------------------- get_element_event_listeners ---------------- *)

\* objectId: object.objectId of the answer to DOM.resolveNode, 0 for none
getElementEventListeners(c) ==
  LET k == Local(c)
      T == "get_element_event_listeners"
  IN \/ Begin(c, T, <<"DOM">>)
     \/ /\ Ensured(c, T)
        /\ \E uid \in UIDs : Continue(c, LookupAndPush(k, uid, "push"))
     \/ /\ At(c, T, "push")
        /\ Resolve(c, "resolveNode", "DOM.resolveNode")
     \/ /\ At(c, T, "resolveNode")
        /\ \/ Fails(c)
           \/ \E objectId \in 0..1 :
                Then(c, Send([k EXCEPT !.objectId = objectId], "getEventListeners",
                             "DOMDebugger.getEventListeners", <<objectId>>))
     \/ /\ At(c, T, "getEventListeners")
        /\ \/ Fails(c)
           \/ Then(c, IF k.objectId # 0
                      THEN Send(k, "releaseObject", "Runtime.releaseObject",
                                <<k.objectId>>)
                      ELSE Return(AppendLine(k)))
     \/ /\ At(c, T, "releaseObject")
        /\ \/ Fails(c)
           \/ Then(c, Return(AppendLine(k)))

(* -------------------------------- get_fonts_info ---------------------- *)

getFontsInfo(c) ==
  LET k == Local(c)
      T == "get_fonts_info"
  IN \/ Begin(c, T, <<"DOM", "CSS">>)
     \/ /\ Ensured(c, T)
        /\ \E uid \in UIDs : Continue(c, LookupAndPush(k, uid, "push"))
     \/ /\ At(c, T, "push")
        /\ Resolve(c, "getPlatformFonts", "CSS.getPlatformFontsForNode")
     \/ /\ At(c, T, "getPlatformFonts")
        /\ \/ Fails(c)
           \/ Then(c, Send(k, "getComputedStyle", "CSS.getComputedStyleForNode",
                           <<k.nodeId>>))
     \/ /\ At(c, T, "getComputedStyle")
        /\ \/ Fails(c)
           \/ Then(c, Return(AppendLine(k)))

(* ----------------------------- show_layout_overlay -------------------- *)

\* the two answers to type: 'grid' and 'flex'
showLayoutOverlay(c) ==
  LET k == Local(c)
      T == "show_layout_overlay"
  IN \/ Begin(c, T, <<"DOM", "Overlay">>)
     \/ /\ Ensured(c, T)
        /\ \E uid \in UIDs : Continue(c, LookupAndPush(k, uid, "push"))
     \/ /\ At(c, T, "push")
        /\ \/ Resolve(c, "setShowOverlays", "Overlay.setShowGridOverlays")
           \/ Resolve(c, "setShowOverlays", "Overlay.setShowFlexOverlays")
     \/ /\ At(c, T, "setShowOverlays")
        /\ \/ Fails(c)
           \/ Then(c, Return(AppendLine(k)))

(* --------------------------- get_accessibility_info ------------------- *)

\* flag: includeAncestors
getAccessibilityInfo(c) ==
  LET k == Local(c)
      T == "get_accessibility_info"
  IN \/ Begin(c, T, <<"DOM">>)
     \/ /\ Ensured(c, T)
        /\ Continue(c, Send(k, "accessibilityEnable", "Accessibility.enable", <<>>))
     \/ /\ At(c, T, "accessibilityEnable")
        /\ \/ Fails(c)
           \/ \E uid \in UIDs, includeAncestors \in BOOLEAN :
                LET k1 == [k EXCEPT !.hasUid = TRUE, !.uid = uid]
                IN Then(c,
                     IF NoBackendNodeId(uid)
                     THEN Throw(k1, UnknownUidError(uid))
                     ELSE Send([k1 EXCEPT !.flag = includeAncestors], "getAXNodes",
                               IF includeAncestors
                               THEN "Accessibility.getAXNodeAndAncestors"
                               ELSE "Accessibility.getPartialAXTree",
                               <<getAXNodeByUid(uid).backendNodeId>>))
     \/ /\ At(c, T, "getAXNodes")
        /\ \/ Fails(c)
           \/ Then(c, Return(AppendLine(k)))

(* ------------------------------ compare_elements ---------------------- *)

\* Variant: the second request is sent when the first is answered.
styleRequests_sequential(k, nodeId1, nodeId2) ==
  Send(k, "styles", "CSS.getComputedStyleForNode", <<nodeId1>>)

\* Promise.all([client.send('CSS.getComputedStyleForNode', {nodeId: nodeId1}),
\*              client.send('CSS.getComputedStyleForNode', {nodeId: nodeId2})]):
\* both commands go out as the array is built, then the handler awaits
styleRequests(k, nodeId1, nodeId2) ==
  Send(Send(k, "styles", "CSS.getComputedStyleForNode", <<nodeId1>>),
       "styles", "CSS.getComputedStyleForNode", <<nodeId2>>)

\* The answer to request i of Promise.all arrives: it becomes element i of
\* the result, [styles1, styles2].  styles[j] is the request whose answer
\* is element j.
settleStyle(k, i) ==
  [k EXCEPT !.arrived = Append(@, i), !.styles[i] = i]

compareElements(c) ==
  LET k == Local(c)
      T == "compare_elements"
  IN \/ Begin(c, T, <<"DOM", "CSS">>)
     \/ /\ Ensured(c, T)
        /\ \E uid1 \in UIDs, uid2 \in UIDs :
             LET k1 == [k EXCEPT !.hasUid = TRUE, !.uid = uid1, !.uid2 = uid2]
             IN Continue(c,
                  IF NoBackendNodeId(uid1) THEN Throw(k1, UnknownUidError(uid1))
                  ELSE IF NoBackendNodeId(uid2) THEN Throw(k1, UnknownUidError(uid2))
                  ELSE Send(k1, "push1", "DOM.pushNodesByBackendIdsToFrontend",
                            pushParams(getAXNodeByUid(uid1).backendNodeId)))
     \/ /\ At(c, T, "push1")
        /\ \/ Fails(c)
           \/ \E resp \in PushResponses :
                LET r == resolveToNodeId(resp)
                IN Then(c,
                     IF r.ok
                     THEN [Send([k EXCEPT !.nodeId = r.nodeId], "push2",
                                "DOM.pushNodesByBackendIdsToFrontend",
                                pushParams(getAXNodeByUid(k.uid2).backendNodeId))
                             EXCEPT !.pushResp = <<resp>>]
                     ELSE Throw([k EXCEPT !.pushResp = <<resp>>], ResolutionError))
     \/ /\ At(c, T, "push2")
        /\ \/ Fails(c)
           \/ \E resp \in PushResponses :
                LET r == resolveToNodeId(resp)
                IN Then(c,
                     IF r.ok
                     THEN [styleRequests([k EXCEPT !.nodeId2 = r.nodeId],
                                         k.nodeId, r.nodeId)
                             EXCEPT !.pushResp = <<resp>>]
                     ELSE Throw([k EXCEPT !.pushResp = <<resp>>], ResolutionError))
     \* the answers to the two requests, in either order
     \/ /\ At(c, T, "styles")
        /\ \E i \in {1, 2} \ {k.arrived[j] : j \in DOMAIN k.arrived} :
             \/ Fails(c)
             \/ Then(c, LET k1 == settleStyle(k, i)
                        IN IF Len(k1.arrived) = 2 THEN Return(AppendLine(k1))
                           ELSE k1)

(* ------------------------------ get_css_variables --------------------- *)

getCssVariables(c) ==
  LET k == Local(c)
      T == "get_css_variables"
  IN \/ Begin(c, T, <<"DOM", "CSS">>)
     \/ /\ Ensured(c, T)
        /\ \E uid \in UIDs : Continue(c, LookupAndPush(k, uid, "push"))
     \/ /\ At(c, T, "push")
        /\ Resolve(c, "getComputedStyle", "CSS.getComputedStyleForNode")
     \/ /\ At(c, T, "getComputedStyle")
        /\ \/ Fails(c)
           \/ Then(c, Send(k, "getMatchedStyles", "CSS.getMatchedStylesForNode",
                           <<k.nodeId>>))
     \/ /\ At(c, T, "getMatchedStyles")
        /\ \/ Fails(c)
           \/ Then(c, Return(AppendLine(k)))

(* ----------------------------- storage tools -------------------------- *)

\* !request.params.confirm, for confirm absent, false or true
Falsy(confirm) == confirm \in {"absent", "false"}

Confirms == {"absent", "false", "true"}

\* A step of a storage handler leaves the call as nk; a handler that has
\* reached its finally block has called detach() on its session.
StorageStep(c, nk, made) ==
  /\ call' = [call EXCEPT ![c] = nk]
  /\ undetached' =
       IF nk.pc = "detach" THEN (undetached \cup made) \ {nk.client}
       ELSE undetached \cup made
  /\ UNCHANGED <<sessions, enableSent, enabledOk, enableFailed, rawUse, timers, walk, cmp, snap>>

\* The handler of `tool` is invoked in slot c with the confirm parameter:
\*   const page = context.getSelectedPage();
\*   const session = await page.createCDPSession();
BeginStorage(c, tool, confirm) ==
  /\ call[c].pc \in {"idle", "done", "failed"}
  /\ started < MaxStarts
  /\ started' = started + 1
  /\ \E page \in Pages :
       StorageStep(c, [IdleCall EXCEPT !.tool = tool, !.pc = "createCDPSession",
                                       !.page = page, !.pageRead = TRUE,
                                       !.confirm = confirm], {})

\* Variant: the confirm guard comes after the session has been created.
RejectConfirm_afterSession(c, tool, confirm) ==
  /\ call[c].pc \in {"idle", "done", "failed"}
  /\ started < MaxStarts
  /\ started' = started + 1
  /\ \E page \in Pages :
       LET s == [page |-> page, n |-> started + 1]
       IN StorageStep(c, Throw([IdleCall EXCEPT !.tool = tool, !.page = page,
                                                !.pageRead = TRUE, !.client = s,
                                                !.confirm = confirm],
                               ConfirmError), {s})

\* if (!request.params.confirm) throw new Error(...), the first statement
\* of the handler.
RejectConfirm(c, tool, confirm) ==
  /\ call[c].pc \in {"idle", "done", "failed"}
  /\ started < MaxStarts
  /\ started' = started + 1
  /\ StorageStep(c, Throw([IdleCall EXCEPT !.tool = tool, !.confirm = confirm],
                          ConfirmError), {})

\* the handler enters its finally block: await session.detach()
Finally(k) ==
  [k EXCEPT !.pc = "detach", !.inflight = FALSE, !.detaches = @ + 1]

\* Variant: detach() is called at the end of the try block only.
Caught_noFinally(k, err) == Throw(k, err)

\* an exception leaves the try block of a storage handler
Caught(k, err) == Finally([k EXCEPT !.pending = err])

\* createCDPSession is answered with a new session, on which the handler
\* sends `name`, or it is rejected.  flag: the parameter that chooses the
\* command or the line (track, quotaSize !== undefined)
SessionCreatedWith(c, tool, name, flag) ==
  LET k == call[c]
      s == [page |-> k.page, n |-> started]
  IN /\ AtRest(c, tool, "createCDPSession")
     /\ UNCHANGED started
     /\ \/ StorageStep(c, Send([k EXCEPT !.client = s, !.flag = flag],
                               "command", name, <<>>), {s})
        \/ StorageStep(c, Throw(k, ProtocolError("page.createCDPSession")), {})

SessionCreated(c, tool, name) == SessionCreatedWith(c, tool, name, FALSE)

\* the command is rejected: the exception leaves the try block
CommandFails(c, tool) ==
  /\ At(c, tool, "command")
  /\ UNCHANGED started
  /\ StorageStep(c, Caught(call[c], ProtocolError(Pending(call[c]))), {})

\* the command is answered and the line is appended
CommandDone(c, tool) ==
  /\ At(c, tool, "command")
  /\ UNCHANGED started
  /\ StorageStep(c, Finally(AppendLine(call[c])), {})

\* the command is answered and a statement before appendResponseLine throws
FormatFails(c, tool) ==
  /\ At(c, tool, "command")
  /\ UNCHANGED started
  /\ StorageStep(c, Caught(call[c], FormatError), {})

\* detach() is answered: the handler returns, or the exception of the try
\* block goes on; detach() is rejected: its rejection leaves the handler.
Detached(c, tool) ==
  LET k == call[c]
  IN /\ AtRest(c, tool, "detach")
     /\ UNCHANGED started
     /\ \/ StorageStep(c, IF k.pending # NoError THEN Throw(k, k.pending)
                          ELSE Return(k), {})
        \/ StorageStep(c, Throw(k, ProtocolError("session.detach")), {})

getCookies(c) ==
  LET T == "get_cookies"
  IN \/ BeginStorage(c, T, "absent")
     \/ SessionCreated(c, T, "Storage.getCookies")
     \/ CommandFails(c, T)
     \/ CommandDone(c, T)
     \/ FormatFails(c, T)
     \/ Detached(c, T)

\* Strings are sequences of characters: "x.com", ".x.com", "y.org".
DomainStrings ==
  {<<"x", ".", "c", "o", "m">>, <<".", "x", ".", "c", "o", "m">>,
   <<"y", ".", "o", "r", "g">>}

\* result.cookies of the answer to Storage.getCookies, by their domains,
\* and request.params.domain
CookieJars(max) ==
  [cookies : SeqsUpTo([domain : DomainStrings], max),
   domainFilter : DomainStrings \cup {<<".", "c", "o", "m">>}]

\* no cookie in the browser
EmptyJar == {[cookies |-> <<>>, domainFilter |-> <<"x", ".", "c", "o", "m">>]}

\* String.prototype.includes
stringIncludes(string, searchString) ==
  \E i \in 0..(Len(string) - Len(searchString)) :
    SubSeq(string, i + 1, i + Len(searchString)) = searchString

\* result.cookies.filter(cookie => cookie.domain.includes(domainFilter))
filterCookies(cookies, domainFilter) ==
  SelectSeq(cookies, LAMBDA cookie : stringIncludes(cookie.domain, domainFilter))

\* {domain: domainFilter, totalCookies: filtered.length, cookies: filtered}
cookiesForDomain(cookies, domainFilter) ==
  LET filtered == filterCookies(cookies, domainFilter)
  IN [domain |-> domainFilter, totalCookies |-> Len(filtered), cookies |-> filtered]

\* Storage.getCookies is answered, the cookies are filtered and the line
\* is appended
CookiesFiltered(c, tool, jars) ==
  /\ At(c, tool, "command")
  /\ UNCHANGED started
  /\ \E jar \in jars :
       StorageStep(c, Finally(Respond([call[c] EXCEPT !.cookies = jar.cookies,
                                                      !.domainFilter = jar.domainFilter],
                                      cookiesForDomain(jar.cookies, jar.domainFilter))),
                   {})

getCookiesForDomainOf(c, jars) ==
  LET T == "get_cookies_for_domain"
  IN \/ BeginStorage(c, T, "absent")
     \/ SessionCreated(c, T, "Storage.getCookies")
     \/ CommandFails(c, T)
     \/ CookiesFiltered(c, T, jars)
     \/ FormatFails(c, T)
     \/ Detached(c, T)

getCookiesForDomain(c) == getCookiesForDomainOf(c, EmptyJar)

setCookie(c) ==
  LET T == "set_cookie"
  IN \/ BeginStorage(c, T, "absent")
     \/ SessionCreated(c, T, "Storage.setCookies")
     \/ CommandFails(c, T)
     \/ CommandDone(c, T)
     \/ Detached(c, T)

clearAllCookies(c) ==
  LET T == "clear_all_cookies"
  IN \/ \E confirm \in Confirms : Falsy(confirm) /\ RejectConfirm(c, T, confirm)
     \/ \E confirm \in Confirms : ~Falsy(confirm) /\ BeginStorage(c, T, confirm)
     \/ SessionCreated(c, T, "Storage.clearCookies")
     \/ CommandFails(c, T)
     \/ CommandDone(c, T)
     \/ Detached(c, T)

getStorageUsage(c) ==
  LET T == "get_storage_usage"
  IN \/ BeginStorage(c, T, "absent")
     \/ SessionCreated(c, T, "Storage.getUsageAndQuota")
     \/ CommandFails(c, T)
     \/ CommandDone(c, T)
     \/ Detached(c, T)

clearStorageForOrigin(c) ==
  LET T == "clear_storage_for_origin"
  IN \/ \E confirm \in Confirms : Falsy(confirm) /\ RejectConfirm(c, T, confirm)
     \/ \E confirm \in Confirms : ~Falsy(confirm) /\ BeginStorage(c, T, confirm)
     \/ SessionCreated(c, T, "Storage.clearDataForOrigin")
     \/ CommandFails(c, T)
     \/ CommandDone(c, T)
     \/ Detached(c, T)

\* the two answers to request.params.track
trackCacheStorage(c) ==
  LET T == "track_cache_storage"
  IN \/ BeginStorage(c, T, "absent")
     \/ SessionCreatedWith(c, T, "Storage.trackCacheStorageForOrigin", TRUE)
     \/ SessionCreatedWith(c, T, "Storage.untrackCacheStorageForOrigin", FALSE)
     \/ CommandFails(c, T)
     \/ CommandDone(c, T)
     \/ Detached(c, T)

trackIndexeddb(c) ==
  LET T == "track_indexeddb"
  IN \/ BeginStorage(c, T, "absent")
     \/ SessionCreatedWith(c, T, "Storage.trackIndexedDBForOrigin", TRUE)
     \/ SessionCreatedWith(c, T, "Storage.untrackIndexedDBForOrigin", FALSE)
     \/ CommandFails(c, T)
     \/ CommandDone(c, T)
     \/ Detached(c, T)

overrideStorageQuota(c) ==
  LET T == "override_storage_quota"
  IN \/ BeginStorage(c, T, "absent")
     \/ \E hasQuotaSize \in BOOLEAN :
          SessionCreatedWith(c, T, "Storage.overrideQuotaForOrigin", hasQuotaSize)
     \/ CommandFails(c, T)
     \/ CommandDone(c, T)
     \/ Detached(c, T)

(* ------------------------- get_dom_tree: formatNode ------------------- *)

\* The nodes DOM.describeNode answers with: elements with their flat
\* attribute list [name1, value1, name2, value2, ...], text and comments.
NodeKinds ==
  {[nodeType |-> 1, nodeName |-> "DIV", attributes |-> <<>>],
   [nodeType |-> 1, nodeName |-> "SPAN",
    attributes |-> <<"id", "a", "class", "b", "title", "t">>],
   [nodeType |-> 1, nodeName |-> "DIV", attributes |-> <<"id", "", "class", "">>],
   [nodeType |-> 3, nodeName |-> "#text", attributes |-> <<>>],
   [nodeType |-> 8, nodeName |-> "#comment", attributes |-> <<>>]}

\* The node trees of n nodes: node 1 is the root, parent[i] < i is the
\* parent of node i, and the children of a node are in the order of their
\* numbers.  Text and comment nodes have no children.
TreesOf(n) ==
  {[parent |-> p, kinds |-> k] :
     p \in {q \in [1..n -> 0..(n - 1)] :
              /\ q[1] = 0
              /\ \A i \in 2..n : q[i] >= 1 /\ q[i] < i},
     k \in [1..n -> NodeKinds]}

\* the described trees of at most max nodes
DescribedTrees(max) ==
  {t \in UNION {TreesOf(n) : n \in 1..max} :
     \A i \in DOMAIN t.parent :
       t.parent[i] # 0 => t.kinds[t.parent[i]].nodeType \notin {3, 8}}

\* null
Null == [null |-> TRUE]

\* String.prototype.toLowerCase on the node names
toLowerCase(name) ==
  CASE name = "DIV" -> "div"
    [] name = "SPAN" -> "span"
    [] OTHER -> name

\* attrMap[key] after the loop over the flat list: the value of the last
\* pair named key, "" (for undefined) when there is none
attrMap(attrs, key) ==
  LET at == {i \in DOMAIN attrs : i % 2 = 1 /\ i < Len(attrs) /\ attrs[i] = key}
  IN IF at = {} THEN ""
     ELSE attrs[(CHOOSE i \in at : \A j \in at : j <= i) + 1]

\* n.children of node n of the described tree, in order
RECURSIVE Ascending(_)
Ascending(S) ==
  IF S = {} THEN <<>>
  ELSE LET m == CHOOSE x \in S : \A y \in S : x <= y
       IN <<m>> \o Ascending(S \ {m})

children(n) ==
  Ascending({i \in DOMAIN walk.node.parent : walk.node.parent[i] = n})

\* a field the object has only under a condition
Field(name, present, value) ==
  IF present THEN name :> value ELSE [x \in {} |-> x]

\* Variant: the depth is not compared; every delivered level is formatted.
RECURSIVE formatNode_deep(_, _)
formatNode_deep(n, currentDepth) ==
  IF n = 0 THEN Null
  ELSE LET node == walk.node.kinds[n]
       IN IF node.nodeType = 3 \/ node.nodeType = 8 THEN Null
          ELSE LET id == attrMap(node.attributes, "id")
                   class == attrMap(node.attributes, "class")
                   kids ==
                     SelectSeq([i \in DOMAIN children(n) |->
                                  formatNode_deep(children(n)[i], currentDepth + 1)],
                               LAMBDA c : c # Null)
               IN [tag |-> toLowerCase(node.nodeName)]
                    @@ Field("id", id # "", id)
                    @@ Field("class", class # "", class)
                    @@ Field("children", kids # <<>>, kids)

\* Variant: children are formatted only while currentDepth + 1 < depth.
RECURSIVE formatNode_shallow(_, _)
formatNode_shallow(n, currentDepth) ==
  IF n = 0 \/ currentDepth > walk.depth THEN Null
  ELSE LET node == walk.node.kinds[n]
       IN IF node.nodeType = 3 \/ node.nodeType = 8 THEN Null
          ELSE LET id == attrMap(node.attributes, "id")
                   class == attrMap(node.attributes, "class")
                   kids ==
                     IF currentDepth + 1 < walk.depth
                     THEN SelectSeq([i \in DOMAIN children(n) |->
                                       formatNode_shallow(children(n)[i], currentDepth + 1)],
                                    LAMBDA c : c # Null)
                     ELSE <<>>
               IN [tag |-> toLowerCase(node.nodeName)]
                    @@ Field("id", id # "", id)
                    @@ Field("class", class # "", class)
                    @@ Field("children", kids # <<>>, kids)

\* Variant: the formatted children are not filtered, and the children field
\* is set whenever the node has children.
RECURSIVE formatNode_unfiltered(_, _)
formatNode_unfiltered(n, currentDepth) ==
  IF n = 0 \/ currentDepth > walk.depth THEN Null
  ELSE LET node == walk.node.kinds[n]
       IN IF node.nodeType = 3 \/ node.nodeType = 8 THEN Null
          ELSE LET id == attrMap(node.attributes, "id")
                   class == attrMap(node.attributes, "class")
                   kids ==
                     IF currentDepth < walk.depth
                     THEN [i \in DOMAIN children(n) |->
                             formatNode_unfiltered(children(n)[i], currentDepth + 1)]
                     ELSE <<>>
               IN [tag |-> toLowerCase(node.nodeName)]
                    @@ Field("id", id # "", id)
                    @@ Field("class", class # "", class)
                    @@ Field("children", kids # <<>>, kids)

\* formatNode(n, currentDepth) of get_dom_tree, for node n of the described
\* tree and request.params.depth = walk.depth
RECURSIVE formatNode(_, _)
formatNode(n, currentDepth) ==
  IF n = 0 \/ currentDepth > walk.depth THEN Null
  ELSE LET node == walk.node.kinds[n]
       IN IF node.nodeType = 3 \/ node.nodeType = 8 THEN Null
          ELSE LET id == attrMap(node.attributes, "id")
                   class == attrMap(node.attributes, "class")
                   kids ==
                     IF currentDepth < walk.depth
                     THEN SelectSeq([i \in DOMAIN children(n) |->
                                       formatNode(children(n)[i], currentDepth + 1)],
                                    LAMBDA c : c # Null)
                     ELSE <<>>
               IN [tag |-> toLowerCase(node.nodeName)]
                    @@ Field("id", id # "", id)
                    @@ Field("class", class # "", class)
                    @@ Field("children", kids # <<>>, kids)

\* const tree = formatNode(node, 0)
formatTree ==
  /\ ~walk.done
  /\ walk' = [walk EXCEPT !.tree = formatNode(1, 0), !.done = TRUE]
  /\ UNCHANGED <<handlerVars, cmp, snap>>

(* --------------------- compare_elements: the comparison --------------- *)

\* the names of computed style properties, and the names a request may list
StyleNames == {"color", "width"}

PropNames == {"color", "toString"}

StyleValues == {"", "a", "b"}

\* computedStyle lists: [{name, value}, ...]
StyleLists(max) == SeqsUpTo([name : StyleNames, value : StyleValues], max)

defaultProps ==
  <<"display", "position", "width", "height", "margin", "padding", "border",
    "color", "background-color", "font-family", "font-size", "font-weight",
    "line-height", "text-align", "flex-direction", "justify-content",
    "align-items", "gap", "border-radius", "box-shadow", "opacity">>

\* request.params.properties || defaultProps (an empty array is truthy)
propsToCompare(properties) ==
  IF properties.present THEN properties.list ELSE defaultProps

\* for (const prop of styles.computedStyle)
\*   if (propsToCompare.includes(prop.name)) styleMap[prop.name] = prop.value;
\* styleMap is {}: its own properties are the function's domain
RECURSIVE styleMapOf(_, _)
styleMapOf(computedStyle, props) ==
  IF computedStyle = <<>> THEN <<>>
  ELSE LET n == Len(computedStyle)
           prop == computedStyle[n]
           before == styleMapOf(SubSeq(computedStyle, 1, n - 1), props)
       IN IF includes(props, prop.name)
          THEN (prop.name :> prop.value) @@ before
          ELSE before

\* JavaScript values: strings, undefined, and what Object.prototype holds
Str(v) == [type |-> "string", v |-> v]

Undefined == [type |-> "undefined", v |-> ""]

Inherited(key) == [type |-> "object", v |-> key]

\* keys every {} inherits from Object.prototype (toString stands for
\* constructor, valueOf, hasOwnProperty, __proto__, ...)
ObjectPrototypeKeys == {"toString"}

\* styleMap[prop]
Get(styleMap, prop) ==
  IF prop \in DOMAIN styleMap THEN Str(styleMap[prop])
  ELSE IF prop \in ObjectPrototypeKeys THEN Inherited(prop)
  ELSE Undefined

Truthy(v) == v # Undefined /\ v # Str("")

\* v || ''
OrEmpty(v) == IF Truthy(v) THEN v ELSE Str("")

\* Variant: only the first value is normalized.
compare_firstOnly(props, styleMap1, styleMap2, differences, same) ==
  LET prop == Head(props)
      val1 == OrEmpty(Get(styleMap1, prop))
      val2 == Get(styleMap2, prop)
  IN IF val1 # val2
     THEN [differences |->
             (prop :> [element1 |-> val1, element2 |-> val2]) @@ differences,
           same |-> same]
     ELSE IF Truthy(val1)
     THEN [differences |-> differences, same |-> Append(same, prop)]
     ELSE [differences |-> differences, same |-> same]

\* Variant: an equal property is put in front of the list.
compare_sameFirst(props, styleMap1, styleMap2, differences, same) ==
  LET prop == Head(props)
      val1 == OrEmpty(Get(styleMap1, prop))
      val2 == OrEmpty(Get(styleMap2, prop))
  IN IF val1 # val2
     THEN [differences |->
             (prop :> [element1 |-> val1, element2 |-> val2]) @@ differences,
           same |-> same]
     ELSE IF Truthy(val1)
     THEN [differences |-> differences, same |-> <<prop>> \o same]
     ELSE [differences |-> differences, same |-> same]

\* One round of `for (const prop of propsToCompare)` on the first of props.
compare(props, styleMap1, styleMap2, differences, same) ==
  LET prop == Head(props)
      val1 == OrEmpty(Get(styleMap1, prop))
      val2 == OrEmpty(Get(styleMap2, prop))
  IN IF val1 # val2
     THEN [differences |->
             (prop :> [element1 |-> val1, element2 |-> val2]) @@ differences,
           same |-> same]
     ELSE IF Truthy(val1)
     THEN [differences |-> differences, same |-> Append(same, prop)]
     ELSE [differences |-> differences, same |-> same]

\* the loop over props, from differences = {} and same = []
RECURSIVE compareAll(_, _, _, _, _)
compareAll(props, styleMap1, styleMap2, differences, same) ==
  IF props = <<>> THEN [differences |-> differences, same |-> same]
  ELSE LET r == compare(props, styleMap1, styleMap2, differences, same)
       IN compareAll(Tail(props), styleMap1, styleMap2, r.differences, r.same)

\* the request's properties parameter is read
readProperties ==
  /\ cmp.pc = "idle"
  /\ \E properties \in {[present |-> FALSE, list |-> <<>>]}
                   \cup {[present |-> TRUE, list |-> l] : l \in SeqsUpTo(PropNames, MaxProps)} :
       cmp' = [cmp EXCEPT !.pc = "styles1", !.props = propsToCompare(properties)]
  /\ UNCHANGED <<handlerVars, walk, snap>>

\* the loop over styles1.computedStyle
fillStyleMap1 ==
  /\ cmp.pc = "styles1"
  /\ \E computedStyle \in StyleLists(MaxStyleLen) :
       cmp' = [cmp EXCEPT !.pc = "styles2",
                          !.styleMap1 = styleMapOf(computedStyle, cmp.props)]
  /\ UNCHANGED <<handlerVars, walk, snap>>

\* the loop over styles2.computedStyle
fillStyleMap2 ==
  /\ cmp.pc = "styles2"
  /\ \E computedStyle \in StyleLists(MaxStyleLen) :
       cmp' = [cmp EXCEPT !.pc = "compare",
                          !.styleMap2 = styleMapOf(computedStyle, cmp.props)]
  /\ UNCHANGED <<handlerVars, walk, snap>>

\* the loop over propsToCompare and the fields of the response line
compareStyles ==
  /\ cmp.pc = "compare"
  /\ LET r == compareAll(cmp.props, cmp.styleMap1, cmp.styleMap2, <<>>, <<>>)
     IN cmp' = [cmp EXCEPT !.pc = "done",
                           !.differences = r.differences,
                           !.same = r.same,
                           \* Object.keys(differences).length
                           !.differenceCount = Cardinality(DOMAIN r.differences)]
  /\ UNCHANGED <<handlerVars, walk, snap>>

(* -------------------- capture_dom_snapshot: the output ---------------- *)

\* nodes.slice(0, 50)
NodeCap == 50

\* i < 100
ScanLimit == 100

\* strings[nameIdx] of a node: an element, the document node, a text, a
\* comment, and "" for an empty or missing string
SnapshotNames == {"DIV", "#document", "#text", "#comment", ""}

\* The documents of a snapshot.  nodes.nodeName is given in two runs: `lead`
\* nodes named `first`, then `divs` DIV elements; a document may also come
\* without nodes.nodeName.
SnapshotDocs ==
  {[hasNames |-> FALSE, first |-> "", lead |-> 0, divs |-> 0]}
    \cup [hasNames : {TRUE},
          first : SnapshotNames \ {"DIV"},
          lead : {1, NodeCap, ScanLimit},
          divs : {0, 1, NodeCap, NodeCap + 1}]

\* the strings of doc.nodes.nodeName
nodeNamesOf(doc) ==
  [i \in 1..(doc.lead + doc.divs) |-> IF i <= doc.lead THEN doc.first ELSE "DIV"]

\* nodes.slice(0, 50)
sliceNodes(nodes) == SubSeq(nodes, 1, Min(Len(nodes), NodeCap))

\* for (let i = 0; i < nodeNames.length && i < 100; i++): the entries pushed
\* to nodes (attributes and bounds left out), i counted from 0
scanNodes(nodeNames) ==
  SelectSeq([i \in 1..Min(Len(nodeNames), ScanLimit) |->
               [index |-> i - 1, name |-> toLowerCase(nodeNames[i])]],
            LAMBDA n : ~(n.name = "" \/ n.name = "#text" \/ n.name = "#comment"))

\* for (let docIndex = 0; ...): the entries pushed to documents for the
\* documents from docIndex + 1 on (docIndex counted from 0)
RECURSIVE formatDocuments(_, _)
formatDocuments(docs, docIndex) ==
  IF docIndex >= Len(docs) THEN <<>>
  ELSE LET doc == docs[docIndex + 1]
           rest == formatDocuments(docs, docIndex + 1)
       IN IF ~doc.hasNames THEN rest
          ELSE <<[documentIndex |-> docIndex,
                  nodeCount |-> Len(nodeNamesOf(doc)),
                  nodes |-> sliceNodes(scanNodes(nodeNamesOf(doc)))]>> \o rest

\* note: documents[0]?.nodeCount > 50 ? '...' : undefined
noteOf(documents) == documents # <<>> /\ documents[1].nodeCount > NodeCap

\* DOMSnapshot.captureSnapshot is answered
snapshotAnswered ==
  /\ snap.pc = "idle"
  /\ \E docs \in SeqsUpTo(SnapshotDocs, MaxDocs) :
       snap' = [snap EXCEPT !.pc = "format", !.docs = docs]
  /\ UNCHANGED <<handlerVars, walk, cmp>>

\* the snapshot is formatted into the response line
formatSnapshot ==
  /\ snap.pc = "format"
  /\ LET documents == formatDocuments(snap.docs, 0)
     IN snap' = [snap EXCEPT !.pc = "done",
                             !.documentCount = Len(documents),
                             !.documents = documents,
                             !.note = noteOf(documents)]
  /\ UNCHANGED <<handlerVars, walk, cmp>>

(* ------------------------------- query_selector ----------------------- *)

\* the node ids an answer lists; the handlers take them as they are, 0
\* included
NodeIdLists == SeqsUpTo(NodeIds, MaxPushLen)

\* result.nodeIds.slice(0, request.params.limit)
sliceIds(nodeIds, limit) == SubSeq(nodeIds, 1, Min(Len(nodeIds), limit))

\* Variant: the node id of the answer is taken as it is.
oneId_unchecked(nodeId) == <<nodeId>>

\* if (result.nodeId) nodeIds = [result.nodeId]
oneId(nodeId) == IF nodeId # 0 THEN <<nodeId>> ELSE <<>>

\* the document of query_selector after its loop
selected(k) == [found |-> Len(k.elements), elements |-> k.elements]

\* the document of search_dom after its loop
searched(k) ==
  [found |-> k.resultCount, returned |-> Len(k.elements), elements |-> k.elements]

\* for (const nodeId of nodeIds) { try { describeNode ... } catch {} }:
\* the next round of the loop, or the document after the last
describeNext(k) ==
  IF k.nodeIds = <<>>
  THEN Return(Respond(k, IF k.tool = "search_dom" THEN searched(k) ELSE selected(k)))
  ELSE Send([k EXCEPT !.nodeIds = Tail(@), !.nodeId = Head(k.nodeIds)],
            "describeNode", "DOM.describeNode", <<Head(k.nodeIds)>>)

\* elements.push({nodeId, ...})
pushElement(k) == [k EXCEPT !.elements = Append(@, k.nodeId)]

\* Variant: nothing is appended when no element is found.
describeAll_silentWhenEmpty(k, nodeIds) ==
  IF Len(nodeIds) = 0
  THEN Return(k)
  ELSE describeNext([k EXCEPT !.nodeIds = nodeIds])

\* if (nodeIds.length === 0) { appendResponseLine({found: 0, message}); return }
\* and the loop over nodeIds otherwise
describeAll(k, nodeIds) ==
  IF Len(nodeIds) = 0
  THEN Return(Respond(k, [found |-> 0, message |-> TRUE]))
  ELSE describeNext([k EXCEPT !.nodeIds = nodeIds])

\* flag: all.  maxLen: the longest list of node ids the browser answers and
\* the largest limit asked for.
querySelectorOf(c, maxLen) ==
  LET k == Local(c)
      T == "query_selector"
  IN \/ Begin(c, T, <<"DOM">>)
     \/ /\ Ensured(c, T)
        /\ Continue(c, Send(k, "getDocument", "DOM.getDocument", <<>>))
     \* nodeId: root.nodeId, taken as answered
     \/ /\ At(c, T, "getDocument")
        /\ \/ Fails(c)
           \/ \E root \in NodeIds, limit \in 1..maxLen :
                Then(c, Send([k EXCEPT !.flag = TRUE, !.limit = limit],
                             "querySelectorAll", "DOM.querySelectorAll", <<root>>))
           \/ \E root \in NodeIds :
                Then(c, Send(k, "querySelector", "DOM.querySelector", <<root>>))
     \/ /\ At(c, T, "querySelectorAll")
        /\ \/ Fails(c)
           \/ \E nodeIds \in {l \in NodeIdLists : Len(l) <= maxLen} :
                Then(c, describeAll(k, sliceIds(nodeIds, k.limit)))
     \/ /\ At(c, T, "querySelector")
        /\ \/ Fails(c)
           \/ \E nodeId \in NodeIds : Then(c, describeAll(k, oneId(nodeId)))
     \/ /\ At(c, T, "describeNode")
        /\ \/ Resume(c, FALSE, describeNext(k), 0)
           \/ Then(c, Send(k, "getAttributes", "DOM.getAttributes", <<k.nodeId>>))
     \/ /\ At(c, T, "getAttributes")
        /\ \/ Resume(c, FALSE, describeNext(k), 0)
           \/ Then(c, describeNext(pushElement(k)))

\* query_selector on a page where at most one element matches
querySelector(c) == querySelectorOf(c, 1)

(* --------------------------------- search_dom ------------------------- *)

\* toIndex: Math.min(resultCount, request.params.limit)
toIndex(resultCount, limit) == Min(resultCount, limit)

\* maxLen: the largest resultCount the browser answers and the largest
\* limit asked for.
searchDomOf(c, maxLen) ==
  LET k == Local(c)
      T == "search_dom"
  IN \/ Begin(c, T, <<"DOM">>)
     \/ /\ Ensured(c, T)
        /\ \E limit \in 1..maxLen :
             Continue(c, Send([k EXCEPT !.limit = limit],
                              "performSearch", "DOM.performSearch", <<>>))
     \/ /\ At(c, T, "performSearch")
        /\ \/ Fails(c)
           \/ \E searchId \in 1..2, resultCount \in 0..maxLen :
                LET k1 == [k EXCEPT !.searchId = searchId,
                                    !.resultCount = resultCount]
                IN Then(c, IF resultCount = 0
                           THEN Send(k1, "discardEmpty",
                                     "DOM.discardSearchResults", <<searchId>>)
                           ELSE Send(k1, "getSearchResults",
                                     "DOM.getSearchResults", <<searchId>>))
     \/ /\ At(c, T, "discardEmpty")
        /\ \/ Fails(c)
           \/ Then(c, Return(Respond(k, [found |-> 0, message |-> TRUE])))
     \/ /\ At(c, T, "getSearchResults")
        /\ \/ Fails(c)
           \/ \E nodeIds \in NodeIdLists :
                /\ Len(nodeIds) = toIndex(k.resultCount, k.limit)
                /\ Then(c, Send([k EXCEPT !.nodeIds = nodeIds], "discardSearchResults",
                                "DOM.discardSearchResults", <<k.searchId>>))
     \/ /\ At(c, T, "discardSearchResults")
        /\ \/ Fails(c)
           \/ Then(c, describeNext(k))
     \/ /\ At(c, T, "describeNode")
        /\ \/ Resume(c, FALSE, describeNext(k), 0)
           \/ Then(c, Send(k, "getAttributes", "DOM.getAttributes", <<k.nodeId>>))
     \/ /\ At(c, T, "getAttributes")
        /\ Either(c, describeNext(pushElement(k)))

\* search_dom on a page where at most one node matches
searchDom(c) == searchDomOf(c, 1)

(* --------------------------- get_element_at_position ------------------ *)

\* the backend node ids an answer to DOM.getNodeForLocation carries, 0 for
\* none
LocatedBackendIds == {0, getAXNodeByUid("u1").backendNodeId}

\* nodeId: the node id of the answer, 0 for none; objectId is not used
getElementAtPosition(c) ==
  LET k == Local(c)
      T == "get_element_at_position"
  IN \/ Begin(c, T, <<"DOM">>)
     \/ /\ Ensured(c, T)
        /\ Continue(c, Send(k, "getNodeForLocation", "DOM.getNodeForLocation", <<>>))
     \/ /\ At(c, T, "getNodeForLocation")
        /\ \/ Fails(c)
           \/ \E nodeId \in NodeIds, backendNodeId \in LocatedBackendIds :
                Then(c, IF nodeId = 0 /\ backendNodeId = 0
                        THEN Return(Respond(k, [found |-> FALSE, message |-> TRUE]))
                        ELSE IF nodeId # 0
                        THEN Send([k EXCEPT !.nodeId = nodeId], "describeNode",
                                  "DOM.describeNode", <<nodeId>>)
                        ELSE Send(k, "push", "DOM.pushNodesByBackendIdsToFrontend",
                                  pushParams(backendNodeId)))
     \/ /\ At(c, T, "push")
        /\ Resolve(c, "describeNode", "DOM.describeNode")
     \/ /\ At(c, T, "describeNode")
        /\ \/ Fails(c)
           \/ Then(c, Send(k, "getAttributes", "DOM.getAttributes", <<k.nodeId>>))
     \/ /\ At(c, T, "getAttributes")
        /\ \/ Fails(c)
           \/ Then(c, Return(Respond(k, [found |-> TRUE, element |-> k.nodeId])))

(* ------------------------------ specifications ------------------------ *)

\* Tool calls one after the other (slot 1).
Next ==
  \/ \E s \in Sessions : autoHide(s)
  \/ \E s \in Sessions : autoHideAnswered(s)
  \/ ensureEnabled(1)
  \/ inspectElement(1)
  \/ getElementStyles(1)
  \/ getElementBoxModel(1)
  \/ querySelector(1)
  \/ highlightElement(1)
  \/ hideHighlight(1)
  \/ getDomTree(1)
  \/ captureDomSnapshot(1)
  \/ forceElementState(1)
  \/ getElementEventListeners(1)
  \/ getElementAtPosition(1)
  \/ searchDom(1)
  \/ getFontsInfo(1)
  \/ showLayoutOverlay(1)
  \/ getAccessibilityInfo(1)
  \/ compareElements(1)
  \/ getCssVariables(1)

Spec == Init /\ [][Next]_vars

\* Two tool calls against the pages, interleaved at their awaits.
NextConc ==
  \/ \E s \in Sessions : autoHide(s)
  \/ \E s \in Sessions : autoHideAnswered(s)
  \/ \E c \in Slots :
       \/ ensureEnabled(c)
       \/ getElementBoxModel(c)
       \/ highlightElement(c)

SpecConc == Init /\ [][NextConc]_vars

\* Storage tool calls one after the other (slot 1).
NextStorage ==
  \/ getCookies(1)
  \/ getCookiesForDomain(1)
  \/ setCookie(1)
  \/ clearAllCookies(1)
  \/ getStorageUsage(1)
  \/ clearStorageForOrigin(1)
  \/ trackCacheStorage(1)
  \/ trackIndexeddb(1)
  \/ overrideStorageQuota(1)

SpecStorage == Init /\ [][NextStorage]_vars

\* formatNode on every described tree and depth of the bounds.
InitTree ==
  /\ call = [c \in Slots |-> IdleCall]
  /\ started = 0
  /\ sessions = {}
  /\ enableSent = [s \in Sessions |-> [d \in Domains |-> 0]]
  /\ enabledOk = [s \in Sessions |-> {}]
  /\ enableFailed = {}
  /\ rawUse = {}
  /\ timers = [s \in Sessions |-> IdleTimers]
  /\ undetached = {}
  /\ walk \in {[node |-> t, depth |-> d, tree |-> Null, done |-> FALSE] :
                t \in DescribedTrees(MaxTreeNodes), d \in 1..MaxDepth}
  /\ cmp = IdleCmp
  /\ snap = IdleSnap

NextTree == formatTree

SpecTree == InitTree /\ [][NextTree]_vars

\* get_dom_tree requests with every depth parameter, one after the other.
NextSchema ==
  \/ rejectDepth(1)
  \/ ensureEnabled(1)
  \/ getDomTreeOf(1, AcceptedDepths)

SpecSchema == Init /\ [][NextSchema]_vars

\* The comparison of compare_elements on every property list and pair of
\* computed styles of the bounds.
NextCompare ==
  \/ readProperties
  \/ fillStyleMap1
  \/ fillStyleMap2
  \/ compareStyles

SpecCompare == Init /\ [][NextCompare]_vars

\* The output of capture_dom_snapshot on every snapshot of the bounds.
NextSnapshot ==
  \/ snapshotAnswered
  \/ formatSnapshot

SpecSnapshot == Init /\ [][NextSnapshot]_vars

\* a scheduled callback runs
AutoHides == \E s \in Sessions : autoHide(s)

\* highlight_element and hide_highlight calls one after the other, and the
\* timers of the highlights.
NextTimers ==
  \/ AutoHides
  \/ \E s \in Sessions : autoHideAnswered(s)
  \/ ensureEnabled(1)
  \/ highlightElement(1)
  \/ hideHighlight(1)

\* The event loop runs every callback whose timer has expired.
SpecTimers == Init /\ [][NextTimers]_vars /\ WF_vars(AutoHides)

\* query_selector, search_dom and get_element_at_position calls one after
\* the other (slot 1).
NextQuery ==
  \/ ensureEnabled(1)
  \/ querySelectorOf(1, MaxPushLen)
  \/ searchDomOf(1, MaxPushLen)
  \/ getElementAtPosition(1)

SpecQuery == Init /\ [][NextQuery]_vars

\* get_element_styles calls one after the other, on elements with and
\* without inline style.
NextStyles ==
  \/ ensureEnabled(1)
  \/ getElementStylesOf(1, MatchedStyles(MaxStyleLen, MaxProps))

SpecStyles == Init /\ [][NextStyles]_vars

\* get_element_box_model calls one after the other, on boxes of any four
\* corners.
NextQuad ==
  \/ ensureEnabled(1)
  \/ getElementBoxModelOf(1, Quads)

SpecQuad == Init /\ [][NextQuad]_vars

\* A call of any tool (slot 1), or a step of a setTimeout callback.
AnyTool ==
  \/ \E s \in Sessions : autoHide(s)
  \/ \E s \in Sessions : autoHideAnswered(s)
  \/ ensureEnabled(1)
  \/ inspectElement(1)
  \/ getElementStyles(1)
  \/ getElementBoxModel(1)
  \/ querySelectorOf(1, MaxPushLen)
  \/ highlightElement(1)
  \/ hideHighlight(1)
  \/ getDomTree(1)
  \/ captureDomSnapshot(1)
  \/ forceElementState(1)
  \/ getElementEventListeners(1)
  \/ getElementAtPosition(1)
  \/ searchDomOf(1, MaxPushLen)
  \/ getFontsInfo(1)
  \/ showLayoutOverlay(1)
  \/ getAccessibilityInfo(1)
  \/ compareElements(1)
  \/ getCssVariables(1)
  \/ NextStorage

\* Calls, one after the other (slot 1), of every tool that sends a push or
\* a command with a node id, with the answers to query_selector and
\* search_dom of any length of the bounds.  (highlight_element,
\* hide_highlight, capture_dom_snapshot and get_accessibility_info send
\* neither: they name the element by its backend node id or not at all.)
NextNodeIds ==
  \/ ensureEnabled(1)
  \/ inspectElement(1)
  \/ getElementStyles(1)
  \/ getElementBoxModel(1)
  \/ querySelectorOf(1, MaxPushLen)
  \/ getDomTree(1)
  \/ forceElementState(1)
  \/ getElementEventListeners(1)
  \/ getElementAtPosition(1)
  \/ searchDomOf(1, MaxPushLen)
  \/ getFontsInfo(1)
  \/ showLayoutOverlay(1)
  \/ compareElements(1)
  \/ getCssVariables(1)

SpecNodeIds == Init /\ [][NextNodeIds]_vars

\* get_element_event_listeners calls one after the other (slot 1).
NextListeners ==
  \/ ensureEnabled(1)
  \/ getElementEventListeners(1)

SpecListeners == Init /\ [][NextListeners]_vars

\* get_cookies_for_domain calls one after the other, on any cookies.
NextCookies == getCookiesForDomainOf(1, CookieJars(MaxCookies))

SpecCookies == Init /\ [][NextCookies]_vars

\* Calls of every tool, one after the other, MaxToolCalls of them.
NextTools == AnyTool /\ started' <= MaxToolCalls

SpecTools == Init /\ [][NextTools]_vars

(* ------------------------------ properties ---------------------------- *)

\* the command names of a log, in order
CmdsOf(log) == [i \in DOMAIN log |-> log[i].cmd]

\* the number of entries of a log that are command `name`
CountOf(log, name) == Cardinality({i \in DOMAIN log : log[i].cmd = name})

\* The commands a call of `tool` sends before it looks its uid up.
EnablePrelude(tool) ==
  CASE tool \in {"get_element_styles", "force_element_state", "get_fonts_info",
                 "compare_elements", "get_css_variables"}
         -> <<"DOM.enable", "DOM.getDocument", "CSS.enable">>
    [] tool \in {"highlight_element", "show_layout_overlay"}
         -> <<"DOM.enable", "DOM.getDocument", "Overlay.enable">>
    [] tool = "get_accessibility_info"
         -> <<"DOM.enable", "DOM.getDocument", "Accessibility.enable">>
    [] OTHER -> <<"DOM.enable", "DOM.getDocument">>

\* The domains the ensure functions of a call of `tool` enable.
EnsuredDomains(tool) ==
  CASE tool \in {"get_element_styles", "force_element_state", "get_fonts_info",
                 "compare_elements", "get_css_variables"} -> {"DOM", "CSS"}
    [] tool \in {"highlight_element", "show_layout_overlay"} -> {"DOM", "Overlay"}
    [] tool \in {"hide_highlight", "capture_dom_snapshot", "none"} -> {}
    [] OTHER -> {"DOM"}

\* the handler of call k has looked a uid of the request up
LookedUp(k) == k.hasUid /\ (k.tool = "get_dom_tree" => k.uid # "")

\* the uid whose lookup gave no backend node id, the first of the request
BadUidOf(k) == IF NoBackendNodeId(k.uid) THEN k.uid ELSE k.uid2

HasBadUid(k) ==
  \/ NoBackendNodeId(k.uid)
  \/ k.tool = "compare_elements" /\ NoBackendNodeId(k.uid2)

\* call k is past the awaits of its ensure functions
PastEnsure(k) ==
  \/ k.pc \notin {"idle", "prelude", "failed"}
  \/ k.pc = "prelude" /\ ~k.inflight /\ k.todo = <<>>
  \/ k.pc = "failed" /\ k.err.kind \in {"UnknownUid", "Resolution"}

\* call k is between its invocation and its return or throw
Running(k) == k.pc \notin {"idle", "done", "failed"}

\* C1 (as the code has it): a call whose lookup gives no backend node id
\* fails with the unknown-UID error for that uid, and what it has sent by
\* then is its enable prelude, no more and no less: no push and no command
\* on a node.
C1_UnknownUidAfterPrelude ==
  \A c \in Slots :
    LET k == call[c]
    IN /\ (LookedUp(k) /\ HasBadUid(k)) =>
            /\ k.pc = "failed"
            /\ k.err = UnknownUidError(BadUidOf(k))
       /\ k.err.kind = "UnknownUid" => CmdsOf(k.log) = EnablePrelude(k.tool)

\* C1 as stated: a call that fails with the unknown-UID error has sent no
\* command.
C1_ZeroCommands ==
  \A c \in Slots : call[c].err.kind = "UnknownUid" => call[c].log = <<>>

C1_Witness ==
  \E c \in Slots :
    /\ call[c].tool = "get_element_styles"
    /\ call[c].pc = "failed"
    /\ call[c].err = UnknownUidError("u2")
    /\ CmdsOf(call[c].log) = <<"DOM.enable", "DOM.getDocument", "CSS.enable">>

\* C2 as stated: on each session the enable command of each domain is sent
\* at most once.
C2_EnableAtMostOnce ==
  \A s \in Sessions, d \in Domains : enableSent[s][d] <= 1

\* C3 as stated: two calls running at the same time on one session do not
\* both send the enable command of a domain.
C3_EnableOnceConcurrently ==
  \A c1 \in Slots, c2 \in Slots, d \in Domains :
    (/\ c1 # c2
     /\ Running(call[c1])
     /\ Running(call[c2])
     /\ call[c1].client = call[c2].client)
    => ~(/\ CountOf(call[c1].log, EnableOf(d)) > 0
         /\ CountOf(call[c2].log, EnableOf(d)) > 0)

\* C5: a rejected enable leaves the call with the rejection of that very
\* command as its error and the domain not enabled by it; and a call on a
\* session where an enable of a domain was rejected before sends the enable
\* of that domain again, at its place in the call's prelude.
C5_FailedEnableRetried ==
  \A c \in Slots :
    LET k == call[c]
        pre == EnablePrelude(k.tool)
    IN /\ (k.pc = "failed" /\ k.err.kind = "Protocol") =>
            /\ k.log # <<>>
            /\ k.err = ProtocolError(Pending(k))
            /\ k.err.info \in EnableCmds =>
                 <<k.client, DomainOf(k.err.info)>> \in enableFailed
       /\ \A d \in EnsuredDomains(k.tool) :
            (<<k.client, d>> \in enableFailed /\ PastEnsure(k)) =>
              /\ CountOf(k.log, EnableOf(d)) = 1
              /\ \A i \in DOMAIN pre :
                   DomainOf(pre[i]) \in EnsuredDomains(k.tool) =>
                     i <= Len(k.log) /\ k.log[i].cmd = pre[i]

C5_Witness ==
  \E c \in Slots :
    /\ call[c].pc = "done"
    /\ call[c].tool = "inspect_element"
    /\ <<call[c].client, "DOM">> \in enableFailed
    /\ enableSent[call[c].client]["DOM"] = 2
    /\ "DOM" \in enabledOk[call[c].client]

\* C6: every call past its ensure functions has had the enable of each of
\* their domains sent on its own session, whatever is enabled on the
\* sessions of other pages.
C6_EnabledPerSession ==
  \A c \in Slots :
    LET k == call[c]
    IN PastEnsure(k) =>
         \A d \in EnsuredDomains(k.tool) :
           /\ enableSent[k.client][d] >= 1
           /\ CountOf(k.log, EnableOf(d)) = 1

C6_Witness ==
  \E c \in Slots, s \in sessions :
    /\ s # call[c].client
    /\ "CSS" \in enabledOk[s]
    /\ call[c].tool = "get_element_styles"
    /\ PastEnsure(call[c])
    /\ CountOf(call[c].log, "CSS.enable") = 1
    /\ enableSent[call[c].client]["CSS"] = 1

\* C7: no command of the DOM, CSS, Overlay, Accessibility or DOMSnapshot
\* domain goes out on a session where no enable of its domain, issued by a
\* handler, has succeeded before (rawUse collects the commands that do).
C7_EveryCommandAfterEnable == rawUse = {}

\* C8 as stated: a call that carries a uid whose lookup gives no backend
\* node id fails with the unknown-UID error (it does not go on with another
\* node).
C8_NoFallback ==
  \A c \in Slots :
    LET k == call[c]
    IN (k.hasUid /\ HasBadUid(k)) =>
         /\ k.pc = "failed"
         /\ k.err = UnknownUidError(BadUidOf(k))

PushCmd == "DOM.pushNodesByBackendIdsToFrontend"

\* the positions of the pushes in the log of call k
PushesOf(k) == {i \in DOMAIN k.log : k.log[i].cmd = PushCmd}

\* the node id the last answered push of call k gave (at "push2" the
\* second push of compare_elements is awaiting its answer)
LastResolved(k) ==
  IF k.tool = "compare_elements" /\ Cardinality(PushesOf(k)) = 2 /\ k.pc # "push2"
  THEN k.nodeId2 ELSE k.nodeId

\* C9: each resolution is one push whose batch is the one backend node id
\* of the looked-up uid (of the answer to DOM.getNodeForLocation in
\* get_element_at_position); on an answer whose id list is absent, empty or
\* starts with 0 the call fails with the resolution error, and on any other
\* answer it goes on with the first id of the list.
C9_ResolveContract ==
  \A c \in Slots :
    LET k == call[c]
        n == Cardinality(PushesOf(k))
    IN /\ n <= (IF k.tool = "compare_elements" THEN 2 ELSE 1)
       /\ \A i \in PushesOf(k) :
            LET uid == IF \E j \in PushesOf(k) : j < i THEN k.uid2 ELSE k.uid
            IN IF k.tool = "get_element_at_position"
               THEN \E backendNodeId \in LocatedBackendIds \ {0} :
                      k.log[i].arg = <<backendNodeId>>
               ELSE k.log[i].arg = <<getAXNodeByUid(uid).backendNodeId>>
       /\ k.pushResp # <<>> =>
            LET resp == k.pushResp[1]
            IN /\ n >= 1
               /\ IF \/ ~resp.present
                     \/ resp.nodeIds = <<>>
                     \/ resp.nodeIds[1] = 0
                  THEN /\ k.pc = "failed"
                       /\ k.err = ResolutionError
                       /\ k.log[Len(k.log)].cmd = PushCmd
                  ELSE /\ k.pc # "failed"
                       /\ LastResolved(k) = resp.nodeIds[1]

C9_Witness ==
  \E c \in Slots :
    /\ call[c].tool = "get_element_box_model"
    /\ call[c].pushResp = <<[present |-> TRUE, nodeIds |-> <<1, 0>>]>>
    /\ call[c].nodeId = 1
    /\ call[c].pc = "getBoxModel"
    /\ Cardinality(PushesOf(call[c])) = 1

\* C10: a call that has gone on after a push (resolveToNodeId returned)
\* holds a node id of at least 1 from it, and every command it sent for the
\* node names an id of at least 1.
C10_ResolvedIdPositive ==
  \A c \in Slots :
    LET k == call[c]
    IN \A i \in PushesOf(k) :
         i < Len(k.log) =>
           /\ k.nodeId >= 1
           /\ (k.log[i + 1].cmd = PushCmd \/ k.log[i + 1].arg[1] >= 1)
           /\ (\E j \in PushesOf(k) : j < i) => k.nodeId2 >= 1

C10_Witness ==
  \E c \in Slots :
    /\ call[c].tool = "compare_elements"
    /\ call[c].pc = "done"
    /\ call[c].nodeId >= 1
    /\ call[c].nodeId2 >= 1
    /\ Cardinality(PushesOf(call[c])) = 2

\* C11: a call that resolveToNodeId failed has ended with the resolution
\* error: the push that failed is the last command it sent (the first push
\* when it holds no node id yet, the second push of compare_elements
\* otherwise), it awaits nothing and it has appended no response line.
C11_ResolutionFailureTerminal ==
  \A c \in Slots :
    LET k == call[c]
    IN k.err.kind = "Resolution" =>
         /\ k.pc = "failed"
         /\ ~k.inflight
         /\ k.err = ResolutionError
         /\ k.lines = 0
         /\ k.log[Len(k.log)].cmd = PushCmd
         /\ Cardinality(PushesOf(k)) = (IF k.nodeId = 0 THEN 1 ELSE 2)
         /\ k.nodeId # 0 => k.tool = "compare_elements" /\ k.nodeId2 = 0

C11_Witness ==
  \E c \in Slots :
    /\ call[c].tool = "compare_elements"
    /\ call[c].err = ResolutionError
    /\ call[c].nodeId = 1
    /\ Cardinality(PushesOf(call[c])) = 2
    /\ call[c].lines = 0

StorageTools ==
  {"get_cookies", "get_cookies_for_domain", "set_cookie", "clear_all_cookies",
   "get_storage_usage", "clear_storage_for_origin", "track_cache_storage",
   "track_indexeddb", "override_storage_quota"}

GuardedTools == {"clear_all_cookies", "clear_storage_for_origin"}

\* call k holds a session that createCDPSession made for it
HasOwnSession(k) == k.tool \in StorageTools /\ k.client.n >= 1

\* C12 as stated: a call that ended by throwing has appended no response
\* line.
C12_NoLineWhenThrown ==
  \A c \in Slots : call[c].pc = "failed" => call[c].lines = 0

\* C13: a storage handler calls detach() on the session it created exactly
\* once, when it leaves its try block, whether the command was answered,
\* was rejected, or the statements after it threw; with no storage call
\* running, no created session is left without its detach() call.
C13_DetachedOnEveryPath ==
  /\ \A c \in Slots :
       LET k == call[c]
       IN /\ k.detaches <= 1
          /\ (HasOwnSession(k) /\ k.pc = "command") =>
               k.detaches = 0 /\ k.client \in undetached
          /\ (HasOwnSession(k) /\ k.pc \in {"detach", "done", "failed"}) =>
               k.detaches = 1 /\ k.client \notin undetached
          /\ ~HasOwnSession(k) => k.detaches = 0
  /\ (\A c \in Slots : ~Running(call[c])) => undetached = {}

C13_Witness ==
  /\ started = 2
  /\ undetached = {}
  /\ call[1].tool = "get_cookies"
  /\ call[1].pc = "failed"
  /\ call[1].err = FormatError
  /\ call[1].detaches = 1
  /\ call[1].client = [page |-> "pB", n |-> 2]

\* C14: a guarded tool called with confirm absent or false ends with the
\* confirm error having read no page, created no session, sent no command
\* and appended no line; its clearing command goes out only with confirm
\* true.
C14_ConfirmGuardFirst ==
  \A c \in Slots :
    LET k == call[c]
    IN /\ (k.tool \in GuardedTools /\ (Falsy(k.confirm) \/ k.err.kind = "Confirm")) =>
            /\ k.pc = "failed"
            /\ k.err = ConfirmError
            /\ Falsy(k.confirm)
            /\ ~k.pageRead
            /\ ~HasOwnSession(k)
            /\ k.log = <<>>
            /\ k.detaches = 0
            /\ k.lines = 0
       /\ (CountOf(k.log, "Storage.clearCookies") > 0
             \/ CountOf(k.log, "Storage.clearDataForOrigin") > 0) =>
            k.confirm = "true"
       /\ k.err.kind = "Confirm" => k.tool \in GuardedTools

C14_Witness ==
  \E c \in Slots :
    /\ call[c].tool = "clear_storage_for_origin"
    /\ call[c].confirm = "false"
    /\ call[c].err = ConfirmError
    /\ call[c].log = <<>>
    /\ started = 2
    /\ undetached = {}

\* C15 as stated: a call whose command was rejected ends with the rejection
\* of that command as its error, and has sent the command once.
C15_PrimaryErrorPropagates ==
  \A c \in Slots :
    LET k == call[c]
    IN (k.pc = "failed" /\ k.pending.kind = "Protocol") =>
         /\ k.err = k.pending
         /\ CountOf(k.log, k.pending.info) = 1

\* C16 as stated: an inspect_element call does not end with the rejection
\* of DOM.getBoxModel, DOM.getOuterHTML or DOM.getAttributes as its error.
C16_EnrichmentSwallowed ==
  \A c \in Slots :
    LET k == call[c]
    IN (k.tool = "inspect_element" /\ k.pc = "failed" /\ k.err.kind = "Protocol") =>
         k.err.info \notin {"DOM.getBoxModel", "DOM.getOuterHTML", "DOM.getAttributes"}

\* the positions of command `name` in the log of call k
SendsOf(k, name) == {i \in DOMAIN k.log : k.log[i].cmd = name}

RECURSIVE Flat(_)
Flat(ss) == IF ss = <<>> THEN <<>> ELSE Head(ss) \o Flat(Tail(ss))

\* the entries of a formatted tree t (not null): t and those below it
RECURSIVE Entries(_)
Entries(t) ==
  {t} \cup (IF "children" \in DOMAIN t
            THEN UNION {Entries(t.children[i]) : i \in DOMAIN t.children}
            ELSE {})

\* the entries of an object tree t, d levels below t
RECURSIVE EntriesAt(_, _)
EntriesAt(t, d) ==
  IF d = 0 THEN {t}
  ELSE IF "children" \in DOMAIN t
       THEN UNION {EntriesAt(t.children[i], d - 1) : i \in DOMAIN t.children}
       ELSE {}

\* the tags of a formatted tree t in the order of the document
RECURSIVE TagsOf(_)
TagsOf(t) ==
  <<t.tag>> \o (IF "children" \in DOMAIN t
                THEN Flat([i \in DOMAIN t.children |-> TagsOf(t.children[i])])
                ELSE <<>>)

\* the depth of node n of the described tree below its root
RECURSIVE DepthOf(_)
DepthOf(n) == IF walk.node.parent[n] = 0 THEN 0 ELSE 1 + DepthOf(walk.node.parent[n])

\* the nodes of the described tree from node n down, in document order
RECURSIVE DocumentOrder(_)
DocumentOrder(n) ==
  <<n>> \o Flat([i \in DOMAIN children(n) |-> DocumentOrder(children(n)[i])])

IsTextOrComment(n) == walk.node.kinds[n].nodeType \in {3, 8}

\* C17: the formatted tree has no entry more than N levels below its root
\* and no entry for a text or comment node; it is null exactly when the
\* described root is a text or comment node.
C17_DepthBound ==
  walk.done =>
    /\ (walk.tree = Null) <=> IsTextOrComment(1)
    /\ walk.tree # Null =>
         /\ \A d \in (walk.depth + 1)..MaxTreeNodes : EntriesAt(walk.tree, d) = {}
         /\ \A o \in Entries(walk.tree) :
              /\ o # Null
              /\ o.tag \notin {"#text", "#comment"}

C17_Witness ==
  /\ walk.done
  /\ walk.depth = 1
  /\ walk.node.parent = <<0, 1, 2, 2>>
  /\ walk.node.kinds[3].nodeType = 3
  /\ walk.node.kinds[2].nodeType = 1
  /\ "children" \in DOMAIN walk.tree
  /\ Len(walk.tree.children) = 1

\* C18: the tags of the formatted tree, in document order, are those of the
\* nodes of the described tree at depth <= N that are neither text nor
\* comment, in document order; an entry N levels below the root has no
\* children field; with N = 1, a root with three element children gets a
\* children list of three entries without children fields.
C18_KeepsElementsToDepth ==
  (walk.done /\ ~IsTextOrComment(1)) =>
    /\ TagsOf(walk.tree) =
         LET kept == SelectSeq(DocumentOrder(1),
                               LAMBDA n : DepthOf(n) <= walk.depth /\ ~IsTextOrComment(n))
         IN [i \in DOMAIN kept |-> toLowerCase(walk.node.kinds[kept[i]].nodeName)]
    /\ \A o \in EntriesAt(walk.tree, walk.depth) : "children" \notin DOMAIN o
    /\ \A d \in 0..walk.depth :
         Cardinality({n \in DOMAIN walk.node.parent :
                        DepthOf(n) = d /\ ~IsTextOrComment(n)}) > 0
           => EntriesAt(walk.tree, d) # {}
    /\ (/\ walk.depth = 1
        /\ walk.node.parent = <<0, 1, 1, 1>>
        /\ \A n \in 2..4 : ~IsTextOrComment(n)) =>
         /\ Len(walk.tree.children) = 3
         /\ \A i \in 1..3 : "children" \notin DOMAIN walk.tree.children[i]

C18_Witness ==
  /\ walk.done
  /\ walk.depth = 1
  /\ walk.node.parent = <<0, 1, 1, 1>>
  /\ \A n \in 2..4 : walk.node.kinds[n].nodeName = "SPAN"
  /\ Len(walk.tree.children) = 3
  /\ \A i \in 1..3 : walk.tree.children[i] = [tag |-> "span", id |-> "a", class |-> "b"]

\* what formatNode makes of each kind of element, its children apart
Projections ==
  {[tag |-> "div"], [tag |-> "span", id |-> "a", class |-> "b"]}

\* C20: every entry of the formatted tree is a tag with, when not empty,
\* the id and the class of its node and nothing else of its attributes; a
\* children field is a non-empty list without null; an entry whose node has
\* only text and comment children has no children field.
C20_ProjectionAndPruning ==
  (walk.done /\ walk.tree # Null) =>
    /\ \A o \in Entries(walk.tree) :
         /\ o # Null
         /\ DOMAIN o \subseteq {"tag", "id", "class", "children"}
         /\ [f \in DOMAIN o \ {"children"} |-> o[f]] \in Projections
         /\ "children" \in DOMAIN o =>
              /\ o.children # <<>>
              /\ \A i \in DOMAIN o.children : o.children[i] # Null
    /\ (\A n \in DOMAIN walk.node.parent : n # 1 /\ walk.node.parent[n] = 1
                                             => IsTextOrComment(n))
         => "children" \notin DOMAIN walk.tree
    /\ [f \in DOMAIN walk.tree \ {"children"} |-> walk.tree[f]] =
         (IF walk.node.kinds[1].nodeName = "SPAN"
          THEN [tag |-> "span", id |-> "a", class |-> "b"]
          ELSE [tag |-> "div"])

C20_Witness ==
  /\ walk.done
  /\ walk.depth = 2
  /\ walk.node.parent = <<0, 1, 1, 3>>
  /\ walk.node.kinds[2].nodeType = 8
  /\ walk.node.kinds[4].nodeType = 3
  /\ walk.node.kinds[1].attributes = <<"id", "", "class", "">>
  /\ walk.tree = [tag |-> "div",
                  children |-> <<[tag |-> "span", id |-> "a", class |-> "b"]>>]

(* ------------------------ properties of the depth parameter ----------- *)

\* C21: a get_dom_tree request is rejected for its depth only when the depth
\* is outside 1..20, and then before any command is sent; a request the
\* handler runs has a depth in 1..20.
C21_DepthOneToTwenty ==
  \A c \in Slots :
    call[c].tool = "get_dom_tree" =>
      /\ call[c].err = SchemaError =>
           /\ call[c].depth \notin 1..20
           /\ call[c].log = <<>>
           /\ ~call[c].pageRead
      /\ call[c].pageRead => call[c].depth \in {0} \cup 1..20

(* ------------------------ properties of compare_elements -------------- *)

StyleCmd == "CSS.getComputedStyleForNode"

\* C22: compare_elements has sent either none or both of its
\* CSS.getComputedStyleForNode commands, for node 1 and node 2 in this
\* order, whenever it awaits or handles an answer; the answer to request i
\* is element i of the result whatever the order of arrival.
C22_StylesConcurrent ==
  \A c \in Slots :
    LET k == call[c]
        n == CountOf(k.log, StyleCmd)
    IN k.tool = "compare_elements" =>
         /\ n \in {0, 2}
         /\ n = 2 =>
              /\ k.log[Len(k.log) - 1] = Cmd(StyleCmd, <<k.nodeId>>)
              /\ k.log[Len(k.log)] = Cmd(StyleCmd, <<k.nodeId2>>)
         /\ (n = 0) => k.arrived = <<>>
         /\ \A j \in DOMAIN k.arrived : k.styles[k.arrived[j]] = k.arrived[j]
         /\ k.pc = "done" => k.styles = <<1, 2>> /\ k.lines = 1

C22_Witness ==
  /\ call[1].tool = "compare_elements"
  /\ call[1].pc = "done"
  /\ call[1].arrived = <<2, 1>>
  /\ call[1].styles = <<1, 2>>

\* the value of property p in a style map, a missing value being ""
ValueIn(styleMap, p) == IF p \in DOMAIN styleMap THEN styleMap[p] ELSE ""

\* C23: for every compared property p, p is a key of differences, with both
\* values, iff the two elements' values differ; p is in sameProperties iff
\* they are equal and not empty; the keys of differences and sameProperties
\* are disjoint and within the compared list.
C23_DiffSameNeither ==
  cmp.pc = "done" =>
    /\ \A i \in DOMAIN cmp.props :
         LET p == cmp.props[i]
             v1 == ValueIn(cmp.styleMap1, p)
             v2 == ValueIn(cmp.styleMap2, p)
         IN /\ p \in DOMAIN cmp.differences <=> v1 # v2
            /\ p \in DOMAIN cmp.differences =>
                 cmp.differences[p] = [element1 |-> Str(v1), element2 |-> Str(v2)]
            /\ includes(cmp.same, p) <=> (v1 = v2 /\ v1 # "")
    /\ \A p \in DOMAIN cmp.differences : includes(cmp.props, p) /\ ~includes(cmp.same, p)
    /\ \A j \in DOMAIN cmp.same : includes(cmp.props, cmp.same[j])

\* C24: comparing the second element with the first gives the same keys of
\* differences, with element1 and element2 exchanged, and the same
\* sameProperties.
C24_Symmetric ==
  cmp.pc = "done" =>
    LET r == compareAll(cmp.props, cmp.styleMap2, cmp.styleMap1, <<>>, <<>>)
    IN /\ DOMAIN r.differences = DOMAIN cmp.differences
       /\ \A p \in DOMAIN cmp.differences :
            /\ r.differences[p].element1 = cmp.differences[p].element2
            /\ r.differences[p].element2 = cmp.differences[p].element1
       /\ r.same = cmp.same

C24_Witness ==
  /\ cmp.pc = "done"
  /\ cmp.props = <<"color", "toString">>
  /\ cmp.styleMap1 = ("color" :> "a")
  /\ cmp.styleMap2 = <<>>
  /\ cmp.differences =
       ("color" :> [element1 |-> Str("a"), element2 |-> Str("")])
  /\ cmp.same = <<"toString">>

\* C25: differenceCount is the number of keys of differences; when every
\* compared property has equal values on both elements, differenceCount is
\* 0, differences is empty and sameProperties holds every compared property
\* whose equal value is not empty, in the order of the compared list.
C25_AllEqual ==
  cmp.pc = "done" =>
    /\ cmp.differenceCount = Cardinality(DOMAIN cmp.differences)
    /\ (\A i \in DOMAIN cmp.props :
          ValueIn(cmp.styleMap1, cmp.props[i]) = ValueIn(cmp.styleMap2, cmp.props[i]))
         => /\ cmp.differenceCount = 0
            /\ cmp.differences = <<>>
            /\ \A i \in DOMAIN cmp.props :
                 ValueIn(cmp.styleMap1, cmp.props[i]) # ""
                   => includes(cmp.same, cmp.props[i])
            /\ cmp.same = SelectSeq(cmp.props, LAMBDA p : includes(cmp.same, p))

C25_Witness ==
  /\ cmp.pc = "done"
  /\ cmp.props = defaultProps
  /\ cmp.styleMap1 = ("color" :> "a") @@ ("width" :> "b")
  /\ cmp.styleMap2 = cmp.styleMap1
  /\ cmp.differenceCount = 0
  /\ cmp.same = <<"width", "color">>

(* ---------------------- properties of capture_dom_snapshot ------------ *)

\* the names of element nodes in the output
ElementNames == {"div"}

\* the indexes (from 0) of the element nodes of a snapshot document
ElementsOf(doc) ==
  {i - 1 : i \in {j \in DOMAIN nodeNamesOf(doc) : nodeNamesOf(doc)[j] = "DIV"}}

\* C26: every document of the output has at most 50 nodes, and every node
\* of the output is an element: none is named #text, #comment or "".
C26_AtMostFiftyElements ==
  snap.pc = "done" =>
    \A d \in DOMAIN snap.documents :
      /\ Len(snap.documents[d].nodes) <= 50
      /\ \A n \in DOMAIN snap.documents[d].nodes :
           /\ snap.documents[d].nodes[n].name \notin {"#text", "#comment", ""}
           /\ snap.documents[d].nodes[n].name \in ElementNames

\* C27: when the node list of a document of the output omits an element
\* node of that document of the snapshot, the output has the note.
C27_TruncationNoted ==
  snap.pc = "done" =>
    ((\E d \in DOMAIN snap.documents :
        LET out == snap.documents[d]
            emitted == {out.nodes[n].index : n \in DOMAIN out.nodes}
        IN ElementsOf(snap.docs[out.documentIndex + 1]) \ emitted # {})
       => snap.note)

(* ------------------------ properties of the highlight ----------------- *)

\* call c is answered Overlay.highlightNode and returns (in this step)
HighlightReturns(c) ==
  /\ call[c].tool = "highlight_element"
  /\ call[c].pc = "highlightNode"
  /\ call'[c].pc = "done"

\* the timers of session s still to run
PendingOn(t) == t.others + (IF t.own THEN 1 ELSE 0)

\* a timer runs (in this step) on session s
Firing(s) == timers'[s].hides # timers[s].hides

\* the command of a timer is answered (in this step) on session s
Answering(s) == timers'[s].awaiting < timers[s].awaiting

\* C28: a timer is scheduled exactly when a highlight_element call with
\* duration > 0 returns after its highlight command succeeded, one per call;
\* a timer goes only by running, and a running timer sends exactly one
\* Overlay.hideHighlight: no later call cancels it.  Every scheduled timer
\* eventually runs.
C28_OneHidePerTimedHighlight ==
  /\ [][\A s \in Sessions :
          LET returns == {c \in Slots : /\ HighlightReturns(c)
                                        /\ call[c].client = s
                                        /\ call'[c].flag}
              ran == timers'[s].hides - timers[s].hides
          IN /\ ran \in {0, 1}
             /\ PendingOn(timers'[s]) =
                  PendingOn(timers[s]) + Cardinality(returns) - ran]_vars
  /\ <>[](\A s \in Sessions : PendingOn(timers[s]) = 0)

C28_Witness ==
  LET s == getCdpSession("pA")
  IN /\ call[1].tool = "highlight_element"
     /\ started = 2
     /\ call[1].pc = "done"
     /\ call[1].flag
     /\ call[1].client = s
     /\ timers[s].hides = 2
     /\ PendingOn(timers[s]) = 0

\* C29: a rejection of a timer's Overlay.hideHighlight leaves no trace: no
\* call fails with it, it is never unhandled, and neither the running timer
\* nor the answer to its command changes a call.
C29_TimerErrorSwallowed ==
  /\ [](/\ \A s \in Sessions : timers[s].unhandled = 0
        /\ \A c \in Slots : call[c].err # ProtocolError("Overlay.hideHighlight"))
  /\ [][(\E s \in Sessions : Firing(s) \/ Answering(s)) => call' = call]_vars

\* the timer of the first call ran while the second call was in flight; its
\* command was rejected (the highlight is still on the page)
C29_Witness ==
  LET s == getCdpSession("pA")
  IN /\ timers[s].hides = 1
     /\ timers[s].awaiting = 0
     /\ PendingOn(timers[s]) = 0
     /\ timers[s].shown
     /\ started = 2
     /\ call[1].tool = "highlight_element"
     /\ call[1].client = s
     /\ call[1].pc = "highlightNode"

\* C30 as stated: a timer that runs while a highlight is on the page is the
\* timer of the call that put it there: no other timer hides it.
C30_HighlightStaysForDuration ==
  [][\A s \in Sessions :
       (Firing(s) /\ timers[s].shown) => timers[s].own /\ ~timers'[s].own]_vars

\* hide_highlight is answered its command (in this step) on session s
HandlerHides(s) ==
  \E c \in Slots :
    /\ call[c].client = s
    /\ At(c, "hide_highlight", "hideHighlight")
    /\ call'[c].pc = "done"

\* C30: a highlight on the page is taken off only by a hide_highlight call,
\* by its own timer or by the timer of a highlight_element call that
\* returned earlier; a call with duration 0 has no timer of its own; only
\* hide_highlight sends Overlay.hideHighlight from a handler.
C30_OnlyEarlierTimersHide ==
  /\ [][\A s \in Sessions :
          /\ (timers[s].shown /\ ~timers'[s].shown) => (Answering(s) \/ HandlerHides(s))
          /\ \A c \in Slots :
               (HighlightReturns(c) /\ call[c].client = s)
                 => (timers'[s].own <=> call'[c].flag)]_vars
  /\ [](\A c \in Slots :
          CountOf(call[c].log, "Overlay.hideHighlight") > 0
            => call[c].tool = "hide_highlight")

\* the second call, with duration 0, has returned and the timer of the
\* first has taken its highlight off
C30_Witness ==
  LET s == getCdpSession("pA")
  IN /\ call[1].tool = "highlight_element"
     /\ started = 2
     /\ call[1].pc = "done"
     /\ ~call[1].flag
     /\ call[1].client = s
     /\ timers[s].hides = 1
     /\ PendingOn(timers[s]) = 0
     /\ ~timers[s].shown

(* ------------------------ properties of hide_highlight ---------------- *)

\* C31: hide_highlight never fails: a call that has read the selected page
\* ends with exactly one line, whether Overlay.hideHighlight is answered or
\* rejected, whether or not a highlight is shown, and on every repetition;
\* the line is 'Highlight hidden.' only when the command took the highlight
\* off, and after 'No highlight was active.' the page is as it was.
C31_HideNeverFails ==
  /\ [](\A c \in Slots :
          call[c].tool = "hide_highlight" =>
            /\ call[c].pc # "failed"
            /\ call[c].err = NoError
            /\ call[c].lines = (IF call[c].pc = "done" THEN 1 ELSE 0))
  /\ [][\A c \in Slots :
          (At(c, "hide_highlight", "hideHighlight") /\ call'[c] # call[c]) =>
            LET s == call[c].client
            IN /\ call'[c].pc = "done"
               /\ call'[c].flag => ~timers'[s].shown
               /\ ~call'[c].flag => timers'[s] = timers[s]]_vars

\* the second call in a row, with nothing highlighted and the command
\* rejected
C31_Witness ==
  /\ started = 2
  /\ call[1].tool = "hide_highlight"
  /\ call[1].pc = "done"
  /\ ~call[1].flag
  /\ call[1].lines = 1
  /\ \A s \in Sessions : ~timers[s].shown /\ timers[s].hides = 0

(* ------------------------ properties of query_selector ---------------- *)

\* C32: a query_selector call with all=false whose DOM.querySelector is
\* answered node id 0 returns the document {found: 0, message} (in that
\* step, with no further command); every document of query_selector has
\* found equal to the number of elements it lists (none when it has a
\* message); with all=true at most limit elements are described.
C32_FoundIsListed ==
  /\ [](\A c \in Slots :
          LET k == call[c]
          IN k.tool = "query_selector" =>
               /\ Len(k.out) = (IF k.pc = "done" THEN 1 ELSE 0)
               /\ \A i \in DOMAIN k.out :
                    IF "message" \in DOMAIN k.out[i]
                    THEN k.out[i].found = 0 /\ k.elements = <<>>
                    ELSE k.out[i].found = Len(k.out[i].elements)
               /\ k.flag =>
                    /\ Len(k.elements) + Len(k.nodeIds) <= k.limit
                    /\ CountOf(k.log, "DOM.describeNode") <= k.limit)
  /\ [][\A c \in Slots :
          (/\ At(c, "query_selector", "querySelector")
           /\ call'[c].pc # "failed"
           /\ call'[c].nodeId = 0
           /\ call'[c] # call[c])
            => /\ call'[c].pc = "done"
               /\ call'[c].out = <<[found |-> 0, message |-> TRUE]>>
               /\ call'[c].log = call[c].log]_vars

\* all=false and no element matched: the call has returned {found: 0, message}
C32_Witness ==
  /\ call[1].tool = "query_selector"
  /\ call[1].pc = "done"
  /\ ~call[1].flag
  /\ Pending(call[1]) = "DOM.querySelector"
  /\ call[1].out = <<[found |-> 0, message |-> TRUE]>>

(* ------------------------ properties of get_element_styles ------------ *)

\* the indexes of the properties that are not disabled, have a value and
\* pass the filter, when there is one
Qualifying(properties, filterProps) ==
  {i \in DOMAIN properties :
     /\ ~properties[i].disabled
     /\ properties[i].value # ""
     /\ filterProps.present =>
          \E j \in DOMAIN filterProps.list : filterProps.list[j] = properties[i].name}

\* the names of the qualifying properties
QualifyingNames(properties, filterProps) ==
  {properties[i].name : i \in Qualifying(properties, filterProps)}

\* the value of the last qualifying property of that name
LastValue(properties, filterProps, name) ==
  LET is == {i \in Qualifying(properties, filterProps) : properties[i].name = name}
      last == CHOOSE i \in is : \A j \in is : j <= i
  IN properties[last].value

\* C33: a get_element_styles call with includeComputed=false has sent no
\* CSS.getComputedStyleForNode, and its document has no computed field; its
\* inline field maps each qualifying inline property's name to its value,
\* and is absent exactly when no property qualifies.
C33_InlineWithoutComputed ==
  \A c \in Slots :
    LET k == call[c]
        names == QualifyingNames(k.inlineStyle.list, k.properties)
    IN (k.tool = "get_element_styles" /\ ~k.flag) =>
         /\ CountOf(k.log, "CSS.getComputedStyleForNode") = 0
         /\ k.pc = "done" =>
              /\ Len(k.out) = 1
              /\ "computed" \notin DOMAIN k.out[1]
              /\ ("inline" \in DOMAIN k.out[1]) <=> (names # {})
              /\ "inline" \in DOMAIN k.out[1] =>
                   /\ DOMAIN k.out[1]["inline"] = names
                   /\ \A n \in names :
                        k.out[1]["inline"][n]
                          = LastValue(k.inlineStyle.list, k.properties, n)

\* C34: for the property list and filter of every finished call, the keys
\* of cssPropertiesToObject are within the filter when there is one and are
\* exactly the names of the non-disabled, non-empty properties when there is
\* none; every key and value comes from a qualifying property, the last of
\* its name.
C34_KeysAndLastValue ==
  \A c \in Slots :
    LET k == call[c]
        properties == k.inlineStyle.list
        result == cssPropertiesToObject(properties, k.properties)
        names == QualifyingNames(properties, k.properties)
    IN (k.tool = "get_element_styles" /\ k.pc = "done" /\ k.inlineStyle.present) =>
         /\ k.properties.present =>
              DOMAIN result \subseteq {k.properties.list[j] : j \in DOMAIN k.properties.list}
         /\ ~k.properties.present => DOMAIN result = names
         /\ DOMAIN result \subseteq names
         /\ \A n \in DOMAIN result :
              result[n] = LastValue(properties, k.properties, n)
         /\ DOMAIN result # {} => k.out[1]["inline"] = result

(* ------------------------ properties of formatQuad -------------------- *)

\* the orders of four corners
CornerOrders == {p \in [1..4 -> 1..4] : \A i, j \in 1..4 : p[i] = p[j] => i = j}

\* the corners of quad in the order p
Reordered(quad, p) ==
  [i \in 1..8 |-> IF i % 2 = 1 THEN quad[2 * p[(i + 1) \div 2] - 1]
                                ELSE quad[2 * p[i \div 2]]]

\* C35: for the quad of every finished get_element_box_model call,
\* formatQuad gives the same rectangle for the corners in any order; its x
\* and y are the least coordinates of the corners, its width and height
\* the greatest minus the least, not negative, and every corner is within
\* the rectangle.
C35_QuadOrderIndependent ==
  \A c \in Slots :
    LET k == call[c]
        r == k.out[1].content
        xs == {k.quad[2 * i - 1] : i \in 1..4}
        ys == {k.quad[2 * i] : i \in 1..4}
    IN (k.tool = "get_element_box_model" /\ k.pc = "done") =>
         /\ r = formatQuad(k.quad)
         /\ \A p \in CornerOrders : formatQuad(Reordered(k.quad, p)) = r
         /\ r.x \in xs /\ \A x \in xs : r.x <= x /\ x <= r.x + r.width
         /\ r.y \in ys /\ \A y \in ys : r.y <= y /\ y <= r.y + r.height
         /\ r.x + r.width \in xs
         /\ r.y + r.height \in ys
         /\ r.width >= 0 /\ r.height >= 0

\* a box whose first corner is the bottom right one
C35_Witness ==
  /\ call[1].tool = "get_element_box_model"
  /\ call[1].pc = "done"
  /\ call[1].quad = <<2, 2, -1, 2, -1, 0, 2, 0>>
  /\ call[1].out[1].content = [x |-> -1, y |-> 0, width |-> 3, height |-> 2]

(* ------------------------ properties of the response ------------------ *)

\* C36: a call of any tool that has returned has appended exactly one
\* line, on every branch: nothing found by query_selector, search_dom or
\* get_element_at_position, track true and false, quota set and reset; a
\* call that lists documents has listed one.
C36_OneLinePerCall ==
  \A c \in Slots :
    call[c].pc = "done" =>
      /\ call[c].lines = 1
      /\ Len(call[c].out) <= 1

\* search_dom has found nothing and returned
C36_Witness ==
  /\ call[1].tool = "search_dom"
  /\ call[1].pc = "done"
  /\ call[1].resultCount = 0
  /\ call[1].out = <<[found |-> 0, message |-> TRUE]>>
  /\ call[1].lines = 1

(* ------------------------ properties of get_cookies_for_domain -------- *)

\* a domain or filter without its leading dot
WithoutDot(string) ==
  IF string # <<>> /\ Head(string) = "." THEN Tail(string) ELSE string

\* flexible matching: the filter, but for a leading dot, is part of the
\* cookie's domain (".x.com" matches "x.com", "x.com" matches ".x.com")
FlexibleMatch(domainFilter, domain) ==
  \E i \in 0..(Len(domain) - Len(WithoutDot(domainFilter))) :
    SubSeq(domain, i + 1, i + Len(WithoutDot(domainFilter))) = WithoutDot(domainFilter)

\* C37: in the document of every get_cookies_for_domain call, the cookies
\* are those of the browser whose domain matches the filter flexibly, in
\* their order, none left out, and totalCookies is their number.
C37_FlexibleDomainMatch ==
  \A c \in Slots :
    LET k == call[c]
    IN (k.tool = "get_cookies_for_domain" /\ Len(k.out) = 1) =>
         /\ k.out[1].cookies
              = SelectSeq(k.cookies,
                          LAMBDA cookie : FlexibleMatch(k.domainFilter, cookie.domain))
         /\ k.out[1].totalCookies = Len(k.out[1].cookies)
         /\ k.out[1].domain = k.domainFilter

(* ------------------------ properties of node ids ---------------------- *)

\* the commands whose first parameter is a node id
NodeIdCmds ==
  {"DOM.describeNode", "DOM.getAttributes", "DOM.getBoxModel",
   "DOM.getOuterHTML", "DOM.getContentQuads", "DOM.requestChildNodes",
   "DOM.resolveNode", "DOM.querySelector", "DOM.querySelectorAll",
   "CSS.getComputedStyleForNode", "CSS.getMatchedStylesForNode",
   "CSS.forcePseudoState", "CSS.getPlatformFontsForNode",
   "Overlay.setShowGridOverlays", "Overlay.setShowFlexOverlays"}

\* the positions in the log of call k of the commands whose answer gives
\* node ids: a push, a DOM.getDocument of the handler itself (after the two
\* commands of ensureDomEnabled), a location, a selector, a search
NodeIdSources(k) ==
  {i \in DOMAIN k.log :
     \/ k.log[i].cmd \in {PushCmd, "DOM.getNodeForLocation", "DOM.querySelector",
                          "DOM.querySelectorAll", "DOM.getSearchResults"}
     \/ k.log[i].cmd = "DOM.getDocument" /\ i > 2}

\* every push of call k comes after DOM.enable and DOM.getDocument, sent
\* in this order in the same call
PushAfterEnable(k) ==
  \A i \in PushesOf(k) :
    /\ i > 2
    /\ k.log[1].cmd = "DOM.enable"
    /\ k.log[2].cmd = "DOM.getDocument"
    /\ "DOM" \in enabledOk[k.client]

\* C38 as stated: every push comes after the enable and the document of
\* its call, and every command that carries a node id comes after a push
\* of its call.
C38_NodeIdAfterPush ==
  \A c \in Slots :
    LET k == call[c]
    IN /\ PushAfterEnable(k)
       /\ \A i \in DOMAIN k.log :
            k.log[i].cmd \in NodeIdCmds => \E j \in PushesOf(k) : j < i

\* C38: every push comes after the enable and the document of its call;
\* every command that carries a node id carries the one the call holds and
\* comes after an answered command of the same call whose answer gives node ids
\* (a push, the handler's DOM.getDocument, DOM.getNodeForLocation,
\* DOM.querySelector(All), DOM.getSearchResults); the ids of a list answer
\* are described one by one in the order of the list; the node id a call
\* holds is of such an answer of its own, never of an earlier call; all
\* commands of a call go to one session.
C38_NodeIdOfOwnAnswer ==
  /\ [](\A c \in Slots :
          LET k == call[c]
          IN /\ PushAfterEnable(k)
             /\ \A i \in DOMAIN k.log :
                  k.log[i].cmd \in NodeIdCmds =>
                    \E j \in NodeIdSources(k) : j < i
             /\ (k.nodeId # 0 \/ k.nodeIds # <<>> \/ k.elements # <<>>) =>
                  \E j \in NodeIdSources(k) : j < Len(k.log) \/ ~k.inflight)
  /\ [][\A c \in Slots :
          /\ (call[c].log # <<>> /\ call'[c].log # <<>>) =>
                call'[c].client = call[c].client
          /\ (/\ call[c].tool \in {"query_selector", "search_dom"}
              /\ call[c].nodeIds # <<>>
              /\ call'[c].log # <<>>
              /\ call'[c].nodeIds # call[c].nodeIds) =>
                /\ call'[c].nodeIds = Tail(call[c].nodeIds)
                /\ call'[c].nodeId = Head(call[c].nodeIds)
                /\ call'[c].log[Len(call'[c].log)] =
                     Cmd("DOM.describeNode", <<Head(call[c].nodeIds)>>)
          /\ \A i \in DOMAIN call'[c].log :
               (/\ i > Len(call[c].log)
                /\ call'[c].log # <<>> /\ call[c].log # <<>>
                /\ call'[c].log[i].cmd \in NodeIdCmds) =>
                 \/ call'[c].log[i].arg[1] \in {call'[c].nodeId, call'[c].nodeId2}
                 \/ /\ Pending(call[c]) = "DOM.getDocument"
                    /\ call'[c].log[i].cmd \in {"DOM.querySelector",
                                                 "DOM.querySelectorAll"}]_vars

\* the second call, a get_element_at_position, has described the node
\* whose id DOM.getNodeForLocation gave, without a push
C38_Witness ==
  /\ started = 2
  /\ call[1].tool = "get_element_at_position"
  /\ call[1].pc = "done"
  /\ PushesOf(call[1]) = {}
  /\ call[1].nodeId # 0
  /\ call[1].out = <<[found |-> TRUE, element |-> call[1].nodeId]>>

(* ------------------- properties of what a call gives back ------------- *)

\* the positions in the log of call k of the command cmd with parameter arg
SentWith(k, cmd, arg) ==
  {i \in DOMAIN k.log : k.log[i].cmd = cmd /\ k.log[i].arg = arg}

\* C39: a search_dom call that has ended, with a result or with an error,
\* after DOM.performSearch succeeded has sent exactly one
\* DOM.discardSearchResults for the searchId of the answer; no call sends
\* more than one.
C39_SearchDiscarded ==
  \A c \in Slots :
    LET k == call[c]
        discards == SentWith(k, "DOM.discardSearchResults", <<k.searchId>>)
    IN (k.tool = "search_dom" /\ k.searchId # 0) =>
         /\ Cardinality(discards) <= 1
         /\ k.pc \in {"done", "failed"} => Cardinality(discards) = 1

\* C40: a get_element_event_listeners call that has ended, with a result
\* or with an error, after DOM.resolveNode gave an objectId has sent
\* exactly one Runtime.releaseObject for that objectId; no call sends more
\* than one.
C40_ObjectReleased ==
  \A c \in Slots :
    LET k == call[c]
        releases == SentWith(k, "Runtime.releaseObject", <<k.objectId>>)
    IN (k.tool = "get_element_event_listeners" /\ k.objectId # 0) =>
         /\ Cardinality(releases) <= 1
         /\ k.pc \in {"done", "failed"} => Cardinality(releases) = 1

====
